---------------------------- MODULE Spec2Model ----------------------------
(***************************************************************************)
(* TransactionShield: the risk core's stateful parts.                      *)
(*                                                                         *)
(*   DecisionPolicy      src/core/decision_policy.py                       *)
(*   UserProfileManager  src/core/user_profile.py   (the ProfileStore)     *)
(*   BehaviorModel       src/core/behavior_model.py (record_transaction)   *)
(*                                                                         *)
(* Numbers.  Python floats are modelled by exact numbers.                  *)
(*   - Risk scores and thresholds are integers counting 1/RiskScale, so    *)
(*     0.3 is 30000 and 0.29999 is 29999.                                  *)
(*   - Amounts are integers counting AmountUnit (1000) currency units, so  *)
(*     the default mean 5000.0 is 5 and the default std 2000.0 is 2.       *)
(*     Means and variances are exact rationals <<num, den>>.               *)
(*   - amount_std is held by its square, amount_std_sq: the code stores    *)
(*     sqrt(max(0, v)) and only ever reads it back as old_std ** 2, as     *)
(*     amount_std > 0 / == 0, or in |x - mean| / std compared with a       *)
(*     constant, all of which are decided by the square.                   *)
(***************************************************************************)
EXTENDS Integers, Sequences, FiniteSets, TLC

VARIABLES
    allow_threshold,   \* DecisionPolicy.allow_threshold
    block_threshold,   \* DecisionPolicy.block_threshold
    cache,             \* UserProfileManager._cache: user id -> <<>> or <<profile>>
    disk,              \* the profile files of storage_dir: path -> file
    now,               \* datetime.now(), as a tick count
    failures,          \* storage writes that have failed so far
    folded,            \* history: per user, the amounts this manager has folded in
    last,              \* history: the last call and what it returned or raised
    heap,              \* the UserProfile objects that concurrent calls hold
    ref,               \* _cache as references: user id -> <<>> or <<index in heap>>
    threads,           \* the concurrent record_transaction calls: position and locals
    policies,          \* the saved user policies: user id -> <<>> or <<policies>>
    user_profiles      \* the user_profiles table: account -> <<>> or <<row>>

vars == <<allow_threshold, block_threshold, cache, disk, now, failures, folded, last,
          heap, ref, threads, policies, user_profiles>>

policyVars == <<allow_threshold, block_threshold>>
storeVars == <<cache, disk, now, failures, folded>>
raceVars == <<heap, ref, threads>>

(***************************************************************************)
(* Optional values: None is <<>>, a present value v is <<v>>.              *)
(***************************************************************************)
None == <<>>
Some(v) == <<v>>

-----------------------------------------------------------------------------
(***************************************************************************)
(* DecisionPolicy                                                          *)
(***************************************************************************)
RiskScale == 100000

DefaultAllowThreshold == 30000
DefaultBlockThreshold == 60000

\* The arguments update_thresholds is called with: omitted, in range, out of range.
ThresholdInputs ==
    {None, Some(-1), Some(0), Some(30000), Some(60000), Some(70000),
     Some(RiskScale), Some(RiskScale + 1)}

\* The risk scores decide is called with.
RiskInputs == {0, 29999, 30000, 59999, 60000, 65000, 70000, RiskScale}

\* The reasons decide is called with: omitted (None), or a list of strings.
ReasonInputs ==
    {None, Some(<<>>), Some(<<"headline">>), Some(<<"headline", "amount">>)}

InUnitRange(x) == 0 <= x /\ x <= RiskScale

\* update_thresholds: the statements in the order the code runs them.  Each
\* assignment takes effect before the later checks run, so a call that raises
\* at a later check has already stored the earlier values.
UpdateThresholds(at, bt, allow, block) ==
    IF allow # None /\ ~InUnitRange(allow[1])
    THEN [allow_threshold |-> at, block_threshold |-> bt, result |-> "ValueError"]
    ELSE LET at1 == IF allow # None THEN allow[1] ELSE at IN
         IF block # None /\ ~InUnitRange(block[1])
         THEN [allow_threshold |-> at1, block_threshold |-> bt,
               result |-> "ValueError"]
         ELSE LET bt1 == IF block # None THEN block[1] ELSE bt IN
              IF at1 >= bt1
              THEN [allow_threshold |-> at1, block_threshold |-> bt1,
                    result |-> "ValueError"]
              ELSE [allow_threshold |-> at1, block_threshold |-> bt1,
                    result |-> "None"]

\* decide: the if / elif / else over the two thresholds.
DecisionFor(at, bt, risk_score) ==
    IF risk_score < at THEN "ALLOW"
    ELSE IF risk_score < bt THEN "DELAY"
    ELSE "BLOCK"

\* decide's returned dictionary: decision, risk_score, reasons.
Decide(at, bt, risk_score, reasons) ==
    [decision   |-> DecisionFor(at, bt, risk_score),
     risk_score |-> risk_score,
     reasons    |-> IF reasons = None THEN <<>> ELSE reasons[1]]

CallUpdateThresholds(allow, block) ==
    LET r == UpdateThresholds(allow_threshold, block_threshold, allow, block) IN
    /\ allow_threshold' = r.allow_threshold
    /\ block_threshold' = r.block_threshold
    /\ last' = [op |-> "update_thresholds", allow |-> allow, block |-> block,
                result |-> r.result]
    /\ UNCHANGED <<storeVars, raceVars, policies, user_profiles>>

CallDecide(risk_score, reasons) ==
    LET r == Decide(allow_threshold, block_threshold, risk_score, reasons) IN
    /\ last' = [op |-> "decide", risk_score |-> risk_score, reasons |-> reasons,
                result |-> r]
    /\ UNCHANGED <<policyVars, storeVars, raceVars, policies, user_profiles>>

NextPolicy ==
    \/ \E allow \in ThresholdInputs, block \in ThresholdInputs :
          CallUpdateThresholds(allow, block)
    \/ \E risk_score \in RiskInputs, reasons \in ReasonInputs :
          CallDecide(risk_score, reasons)

-----------------------------------------------------------------------------
(***************************************************************************)
(* Exact rationals <<num, den>>, den > 0, in lowest terms.                 *)
(***************************************************************************)
Abs(x) == IF x < 0 THEN -x ELSE x

RECURSIVE GCD(_, _)
GCD(a, b) == IF b = 0 THEN a ELSE GCD(b, a % b)

Rat(n, d) ==
    LET s == IF d < 0 THEN -1 ELSE 1
        g == GCD(Abs(n), Abs(d))
    IN  <<(s * n) \div g, (s * d) \div g>>

RInt(i) == <<i, 1>>
RAdd(x, y) == Rat(x[1] * y[2] + y[1] * x[2], x[2] * y[2])
RSub(x, y) == Rat(x[1] * y[2] - y[1] * x[2], x[2] * y[2])
RMul(x, y) == Rat(x[1] * y[1], x[2] * y[2])
RDiv(x, y) == Rat(x[1] * y[2], x[2] * y[1])
RLess(x, y) == x[1] * y[2] < y[1] * x[2]
RLeq(x, y) == x[1] * y[2] <= y[1] * x[2]
RSquare(x) == RMul(x, x)
RMax(x, y) == IF RLess(x, y) THEN y ELSE x

-----------------------------------------------------------------------------
(***************************************************************************)
(* UserProfile and UserProfileManager                                      *)
(***************************************************************************)
\* User ids are strings, held as their characters so that _get_profile_path
\* can be computed.
Users == {<<"u", "1">>, <<"a", "/", "b">>, <<"a", "_", "b">>}

\* The user the profile-store specifications drive.
StoreUsers == {<<"u", "1">>}

LocationNames == {"home_atm", "office_branch"}
StoreLocationNames == {"home_atm"}

\* The inputs of the specification with failing storage writes.
FaultAmountInputs == {4, 8}
FaultHourInputs == {0, 24}

\* Amounts count AmountUnit currency units.
AmountUnit == 1000
AmountInputs == {4, 6, 8}

\* hour arguments: the first and the last bucket, and one past the end.
HoursPerDay == 24
HourInputs == {0, 23, 24}

\* UserProfile's field defaults: amount_mean 5000.0, amount_std 2000.0.
DefaultAmountMean == 5
DefaultAmountStd == 2

\* Bounds of the exploration.
MaxTxn == 3
MaxClock == 1
MaxFailures == 1

\* UserProfile(user_id=..., learning_enabled=...): the dataclass defaults;
\* created_at and updated_at are datetime.now() at construction.
NewProfile(user_id, learning_enabled, t) ==
    [user_id           |-> user_id,
     learning_enabled  |-> learning_enabled,
     amount_mean       |-> RInt(DefaultAmountMean),
     amount_std_sq     |-> RSquare(RInt(DefaultAmountStd)),
     amount_count      |-> 0,
     hour_histogram    |-> [h \in 0 .. HoursPerDay - 1 |-> 0],
     transaction_count |-> 0,
     trusted_locations |-> <<>>,
     created_at        |-> t,
     updated_at        |-> t]

\* TrustedLocation(name=...): added_at is datetime.now().
NewTrustedLocation(name, t) == [name |-> name, added_at |-> t]

\* Mutant of ToDict: the trusted locations are not serialised.
ToDict_DropsTrustedLocations(p) ==
    [user_id           |-> p.user_id,
     learning_enabled  |-> p.learning_enabled,
     amount_mean       |-> p.amount_mean,
     amount_std_sq     |-> p.amount_std_sq,
     amount_count      |-> p.amount_count,
     hour_histogram    |-> p.hour_histogram,
     transaction_count |-> p.transaction_count,
     trusted_locations |-> <<>>,
     created_at        |-> p.created_at,
     updated_at        |-> p.updated_at]

\* to_dict: asdict(self), the locations as dictionaries.
ToDict(p) ==
    [user_id           |-> p.user_id,
     learning_enabled  |-> p.learning_enabled,
     amount_mean       |-> p.amount_mean,
     amount_std_sq     |-> p.amount_std_sq,
     amount_count      |-> p.amount_count,
     hour_histogram    |-> p.hour_histogram,
     transaction_count |-> p.transaction_count,
     trusted_locations |->
         [i \in 1 .. Len(p.trusted_locations) |->
             [name     |-> p.trusted_locations[i].name,
              added_at |-> p.trusted_locations[i].added_at]],
     created_at        |-> p.created_at,
     updated_at        |-> p.updated_at]

\* from_dict: cls(**data) with the locations rebuilt.
FromDict(data) ==
    [user_id           |-> data.user_id,
     learning_enabled  |-> data.learning_enabled,
     amount_mean       |-> data.amount_mean,
     amount_std_sq     |-> data.amount_std_sq,
     amount_count      |-> data.amount_count,
     hour_histogram    |-> data.hour_histogram,
     transaction_count |-> data.transaction_count,
     trusted_locations |->
         [i \in 1 .. Len(data.trusted_locations) |->
             NewTrustedLocation(data.trusted_locations[i].name,
                                data.trusted_locations[i].added_at)],
     created_at        |-> data.created_at,
     updated_at        |-> data.updated_at]

\* _get_profile_path: '/' and '\' replaced by '_'.
SafeChar(ch) == IF ch = "/" \/ ch = "\\" THEN "_" ELSE ch
ProfilePath(user_id) == [i \in 1 .. Len(user_id) |-> SafeChar(user_id[i])]

Paths == {ProfilePath(u) : u \in Users}

\* A profile file: complete JSON, or cut short by a write that failed.
JsonFile(data) == [complete |-> TRUE, data |-> Some(data)]
TruncatedFile == [complete |-> FALSE, data |-> None]

\* The ways open(path, 'w') + json.dump can end: written; open raised (the
\* file is as it was); the write raised after open truncated the file.
WriteOutcomes == {"written", "open_raised", "dump_raised"}

\* get_profile: the cached object, else the file loaded and cached, else None.
GetProfile(c, d, user_id) ==
    IF c[user_id] # None
    THEN [profile |-> c[user_id], cache |-> c, result |-> "ok"]
    ELSE LET file == d[ProfilePath(user_id)] IN
         IF file = None
         THEN [profile |-> None, cache |-> c, result |-> "ok"]
         ELSE IF ~file[1].complete
         THEN [profile |-> None, cache |-> c, result |-> "JSONDecodeError"]
         ELSE LET profile == FromDict(file[1].data[1]) IN
              [profile |-> Some(profile),
               cache   |-> [c EXCEPT ![user_id] = Some(profile)],
               result  |-> "ok"]

\* Mutant of SaveProfile: created_at is refreshed along with updated_at.
SaveProfile_RefreshesCreatedAt(c, d, profile, t, outcome) ==
    LET saved == [profile EXCEPT !.updated_at = t, !.created_at = t]
        path == ProfilePath(profile.user_id)
    IN  [cache  |-> [c EXCEPT ![profile.user_id] = Some(saved)],
         disk   |-> CASE outcome = "written" ->
                            [d EXCEPT ![path] = Some(JsonFile(ToDict(saved)))]
                      [] outcome = "open_raised" -> d
                      [] outcome = "dump_raised" ->
                            [d EXCEPT ![path] = Some(TruncatedFile)],
         result |-> IF outcome = "written" THEN "ok" ELSE "OSError"]

\* _save_profile: updated_at, then the cache, then the file.
SaveProfile(c, d, profile, t, outcome) ==
    LET saved == [profile EXCEPT !.updated_at = t]
        path == ProfilePath(profile.user_id)
    IN  [cache  |-> [c EXCEPT ![profile.user_id] = Some(saved)],
         disk   |-> CASE outcome = "written" ->
                            [d EXCEPT ![path] = Some(JsonFile(ToDict(saved)))]
                      [] outcome = "open_raised" -> d
                      [] outcome = "dump_raised" ->
                            [d EXCEPT ![path] = Some(TruncatedFile)],
         result |-> IF outcome = "written" THEN "ok" ELSE "OSError"]

\* create_profile
CreateProfile(c, d, user_id, learning_enabled, t, outcome) ==
    LET s == SaveProfile(c, d, NewProfile(user_id, learning_enabled, t), t, outcome)
    IN  [cache |-> s.cache, disk |-> s.disk,
         result |-> IF s.result = "ok" THEN "profile" ELSE s.result]

\* A list index as Python resolves it: -len .. -1 count from the end.
ListIndex(i, len) ==
    IF 0 <= i /\ i < len THEN Some(i)
    ELSE IF -len <= i /\ i < 0 THEN Some(i + len)
    ELSE None

\* The profile a method got under user_id is one object: after _save_profile
\* has put it in the cache under its own user_id, the entry it was got under
\* is that same object.
InPlace(c, user_id, saved_id) == [c EXCEPT ![user_id] = c[saved_id]]

\* Mutant of UpdateBaseline: the mean moves by delta over the count before
\* the increment.
UpdateBaseline_MeanByOldCount(profile, amount) ==
    LET n == profile.amount_count + 1 IN
    IF n = 1
    THEN [profile EXCEPT !.amount_count = n,
                         !.amount_mean = RInt(amount),
                         !.amount_std_sq = RInt(0)]
    ELSE LET old_mean == profile.amount_mean
             delta == RSub(RInt(amount), old_mean)
             new_variance ==
                 RAdd(RMul(Rat(n - 2, n - 1), profile.amount_std_sq),
                      RDiv(RSquare(delta), RInt(n)))
         IN  [profile EXCEPT !.amount_count = n,
                             !.amount_mean = RAdd(old_mean, RDiv(delta, RInt(n - 1))),
                             !.amount_std_sq = RMax(RInt(0), new_variance)]

\* Mutant of UpdateBaseline: the variance term is taken from the new mean.
UpdateBaseline_DeltaFromNewMean(profile, amount) ==
    LET n == profile.amount_count + 1 IN
    IF n = 1
    THEN [profile EXCEPT !.amount_count = n,
                         !.amount_mean = RInt(amount),
                         !.amount_std_sq = RInt(0)]
    ELSE LET old_mean == profile.amount_mean
             new_mean == RAdd(old_mean, RDiv(RSub(RInt(amount), old_mean), RInt(n)))
             delta == RSub(RInt(amount), new_mean)
             new_variance ==
                 RAdd(RMul(Rat(n - 2, n - 1), profile.amount_std_sq),
                      RDiv(RSquare(delta), RInt(n)))
         IN  [profile EXCEPT !.amount_count = n,
                             !.amount_mean = new_mean,
                             !.amount_std_sq = RMax(RInt(0), new_variance)]

\* update_with_transaction, lines 149-162: the baseline update.
UpdateBaseline(profile, amount) ==
    LET n == profile.amount_count + 1 IN
    IF n = 1
    THEN [profile EXCEPT !.amount_count = n,
                         !.amount_mean = RInt(amount),
                         !.amount_std_sq = RInt(0)]
    ELSE LET old_mean == profile.amount_mean
             delta == RSub(RInt(amount), old_mean)
             new_variance ==
                 RAdd(RMul(Rat(n - 2, n - 1), profile.amount_std_sq),
                      RDiv(RSquare(delta), RInt(n)))
         IN  [profile EXCEPT !.amount_count = n,
                             !.amount_mean = RAdd(old_mean, RDiv(delta, RInt(n))),
                             !.amount_std_sq = RMax(RInt(0), new_variance)]

\* update_with_transaction, lines 166-168: the histogram and the total count.
CountTransaction(profile, bucket) ==
    [profile EXCEPT !.hour_histogram[bucket] = @ + 1,
                    !.transaction_count = @ + 1]

\* Mutant of MayLearn: the consent flag is not looked at.
MayLearn_IgnoresConsent(profile) == profile # None

\* update_with_transaction, line 140: no learning without a consenting profile.
MayLearn(profile) == profile # None /\ profile[1].learning_enabled

\* update_with_transaction.  The profile is the cached object and is changed
\* in place, so what was assigned before a raise stays in the cache.
UpdateWithTransaction(c, d, user_id, amount, hour, update_baseline, t, outcome) ==
    LET g == GetProfile(c, d, user_id) IN
    IF g.result # "ok"
    THEN [cache |-> g.cache, disk |-> d, result |-> g.result]
    ELSE IF ~MayLearn(g.profile)
    THEN [cache |-> g.cache, disk |-> d, result |-> "None"]
    ELSE LET p1 == IF update_baseline
                   THEN UpdateBaseline(g.profile[1], amount)
                   ELSE g.profile[1]
             bucket == ListIndex(hour, HoursPerDay)
         IN  IF bucket = None
             THEN [cache  |-> [g.cache EXCEPT ![user_id] = Some(p1)],
                   disk   |-> d,
                   result |-> "IndexError"]
             ELSE LET counted == CountTransaction(p1, bucket[1])
                      s == SaveProfile([g.cache EXCEPT ![user_id] = Some(counted)],
                                       d, counted, t, outcome)
                  IN  [cache  |-> InPlace(s.cache, user_id, counted.user_id),
                       disk   |-> s.disk,
                       result |-> IF s.result = "ok" THEN "None" ELSE s.result]

\* Mutant of AddTrustedLocation: the name is appended without a look at the
\* names already there.
AddTrustedLocation_AlwaysAppends(c, d, user_id, location_name, t, outcome) ==
    LET g == GetProfile(c, d, user_id) IN
    IF g.result # "ok"
    THEN [cache |-> g.cache, disk |-> d, result |-> g.result]
    ELSE IF g.profile = None
    THEN [cache |-> g.cache, disk |-> d, result |-> "False"]
    ELSE LET added == [g.profile[1] EXCEPT !.trusted_locations =
                          Append(@, NewTrustedLocation(location_name, t))]
             s == SaveProfile([g.cache EXCEPT ![user_id] = Some(added)],
                              d, added, t, outcome)
         IN  [cache  |-> InPlace(s.cache, user_id, added.user_id),
              disk   |-> s.disk,
              result |-> IF s.result = "ok" THEN "True" ELSE s.result]

\* Mutant of AddTrustedLocation: an absent user gets a profile to hold the
\* location.
AddTrustedLocation_CreatesProfile(c, d, user_id, location_name, t, outcome) ==
    LET g == GetProfile(c, d, user_id) IN
    IF g.result # "ok"
    THEN [cache |-> g.cache, disk |-> d, result |-> g.result]
    ELSE LET profile == IF g.profile = None
                        THEN NewProfile(user_id, FALSE, t)
                        ELSE g.profile[1]
         IN  IF \E i \in 1 .. Len(profile.trusted_locations) :
                    profile.trusted_locations[i].name = location_name
             THEN [cache |-> g.cache, disk |-> d, result |-> "True"]
             ELSE LET added == [profile EXCEPT !.trusted_locations =
                                   Append(@, NewTrustedLocation(location_name, t))]
                      s == SaveProfile([g.cache EXCEPT ![user_id] = Some(added)],
                                       d, added, t, outcome)
                  IN  [cache  |-> InPlace(s.cache, user_id, added.user_id),
                       disk   |-> s.disk,
                       result |-> IF s.result = "ok" THEN "True" ELSE s.result]

\* add_trusted_location
AddTrustedLocation(c, d, user_id, location_name, t, outcome) ==
    LET g == GetProfile(c, d, user_id) IN
    IF g.result # "ok"
    THEN [cache |-> g.cache, disk |-> d, result |-> g.result]
    ELSE IF g.profile = None
    THEN [cache |-> g.cache, disk |-> d, result |-> "False"]
    ELSE IF \E i \in 1 .. Len(g.profile[1].trusted_locations) :
                g.profile[1].trusted_locations[i].name = location_name
    THEN [cache |-> g.cache, disk |-> d, result |-> "True"]
    ELSE LET added == [g.profile[1] EXCEPT !.trusted_locations =
                          Append(@, NewTrustedLocation(location_name, t))]
             s == SaveProfile([g.cache EXCEPT ![user_id] = Some(added)],
                              d, added, t, outcome)
         IN  [cache  |-> InPlace(s.cache, user_id, added.user_id),
              disk   |-> s.disk,
              result |-> IF s.result = "ok" THEN "True" ELSE s.result]

\* remove_trusted_location
RemoveTrustedLocation(c, d, user_id, location_name, t, outcome) ==
    LET g == GetProfile(c, d, user_id) IN
    IF g.result # "ok"
    THEN [cache |-> g.cache, disk |-> d, result |-> g.result]
    ELSE IF g.profile = None
    THEN [cache |-> g.cache, disk |-> d, result |-> "False"]
    ELSE LET keep(loc) == loc.name # location_name
             removed == [g.profile[1] EXCEPT !.trusted_locations =
                            SelectSeq(@, keep)]
             s == SaveProfile([g.cache EXCEPT ![user_id] = Some(removed)],
                              d, removed, t, outcome)
         IN  [cache  |-> InPlace(s.cache, user_id, removed.user_id),
              disk   |-> s.disk,
              result |-> IF s.result = "ok" THEN "True" ELSE s.result]

\* Mutant of ResetProfile: the new profile takes the default consent flag.
ResetProfile_DefaultConsent(c, d, user_id, t, outcome) ==
    LET g == GetProfile(c, d, user_id) IN
    IF g.result # "ok"
    THEN [cache |-> g.cache, disk |-> d, result |-> g.result]
    ELSE IF g.profile = None
    THEN [cache |-> g.cache, disk |-> d, result |-> "False"]
    ELSE LET s == SaveProfile(g.cache, d, NewProfile(user_id, FALSE, t), t, outcome)
         IN  [cache  |-> s.cache, disk |-> s.disk,
              result |-> IF s.result = "ok" THEN "True" ELSE s.result]

\* reset_profile: a new UserProfile keeping user_id and learning_enabled.
ResetProfile(c, d, user_id, t, outcome) ==
    LET g == GetProfile(c, d, user_id) IN
    IF g.result # "ok"
    THEN [cache |-> g.cache, disk |-> d, result |-> g.result]
    ELSE IF g.profile = None
    THEN [cache |-> g.cache, disk |-> d, result |-> "False"]
    ELSE LET s == SaveProfile(g.cache, d,
                      NewProfile(user_id, g.profile[1].learning_enabled, t),
                      t, outcome)
         IN  [cache  |-> s.cache, disk |-> s.disk,
              result |-> IF s.result = "ok" THEN "True" ELSE s.result]

\* Mutant of DeleteProfile: the file is removed, the cache entry is not.
DeleteProfile_KeepsCache(c, d, user_id) ==
    LET path == ProfilePath(user_id) IN
    [cache  |-> c,
     disk   |-> [d EXCEPT ![path] = None],
     result |-> IF d[path] # None THEN "True" ELSE "False"]

\* delete_profile
DeleteProfile(c, d, user_id) ==
    LET path == ProfilePath(user_id) IN
    [cache  |-> [c EXCEPT ![user_id] = None],
     disk   |-> [d EXCEPT ![path] = None],
     result |-> IF d[path] # None THEN "True" ELSE "False"]

\* set_learning_enabled
\* Mutant of SetLearningEnabled: the profile is created anew with the flag,
\* whether or not one exists.
SetLearningEnabled_Recreates(c, d, user_id, enabled, t, outcome) ==
    LET g == GetProfile(c, d, user_id) IN
    IF g.result # "ok"
    THEN [cache |-> g.cache, disk |-> d, result |-> g.result]
    ELSE LET s == CreateProfile(g.cache, d, user_id, enabled, t, outcome) IN
         [cache  |-> s.cache, disk |-> s.disk,
          result |-> IF s.result = "profile" THEN "True" ELSE s.result]

SetLearningEnabled(c, d, user_id, enabled, t, outcome) ==
    LET g == GetProfile(c, d, user_id) IN
    IF g.result # "ok"
    THEN [cache |-> g.cache, disk |-> d, result |-> g.result]
    ELSE IF g.profile = None
    THEN LET s == CreateProfile(g.cache, d, user_id, enabled, t, outcome) IN
         [cache  |-> s.cache, disk |-> s.disk,
          result |-> IF s.result = "profile" THEN "True" ELSE s.result]
    ELSE LET flagged == [g.profile[1] EXCEPT !.learning_enabled = enabled]
             s == SaveProfile([g.cache EXCEPT ![user_id] = Some(flagged)],
                              d, flagged, t, outcome)
         IN  [cache  |-> InPlace(s.cache, user_id, flagged.user_id),
              disk   |-> s.disk,
              result |-> IF s.result = "ok" THEN "True" ELSE s.result]

\* round(x, 2) of an amount x >= 0, in hundredths of a currency unit; a tie
\* goes to the even neighbour.
Round2(x) ==
    LET scaled == x[1] * AmountUnit * 100
        q == scaled \div x[2]
        r == scaled % x[2]
    IN  IF 2 * r < x[2] THEN q
        ELSE IF 2 * r > x[2] THEN q + 1
        ELSE IF q % 2 = 0 THEN q ELSE q + 1

\* Mutant of PreferredHours: the first three hours, unsorted, with a count
\* above 0.
PreferredHours_Unsorted(hour_histogram) ==
    LET counted(h) == hour_histogram[h] > 0
    IN  SelectSeq(<<0, 1, 2>>, counted)

\* get_profile_summary, lines 242-244: the hours sorted by count, largest
\* first (the sort is stable, so equal counts stay in hour order), the first
\* three of them, and of those the ones with a count above 0.
PreferredHours(hour_histogram) ==
    LET hours == 0 .. HoursPerDay - 1
        ahead(h) == {g \in hours : \/ hour_histogram[g] > hour_histogram[h]
                                   \/ /\ hour_histogram[g] = hour_histogram[h]
                                      /\ g < h}
        sorted == [i \in 1 .. 3 |-> CHOOSE h \in hours : Cardinality(ahead(h)) = i - 1]
        counted(h) == hour_histogram[h] > 0
    IN  SelectSeq(sorted, counted)

\* get_profile_summary.  'std' is given by its square, as amount_std is;
\* 'typical_range', which needs the root itself, is left out.
GetProfileSummary(c, d, user_id) ==
    LET g == GetProfile(c, d, user_id) IN
    IF g.result # "ok"
    THEN [cache |-> g.cache, result |-> g.result, summary |-> None]
    ELSE IF g.profile = None
    THEN [cache |-> g.cache, result |-> "ok", summary |-> None]
    ELSE LET profile == g.profile[1] IN
         [cache   |-> g.cache,
          result  |-> "ok",
          summary |-> Some(
              [user_id           |-> profile.user_id,
               learning_enabled  |-> profile.learning_enabled,
               transaction_count |-> profile.transaction_count,
               amount_range      |-> [mean   |-> Round2(profile.amount_mean),
                                      std_sq |-> profile.amount_std_sq],
               preferred_hours   |-> PreferredHours(profile.hour_histogram),
               trusted_locations |->
                   [i \in 1 .. Len(profile.trusted_locations) |->
                       profile.trusted_locations[i].name],
               created_at        |-> profile.created_at,
               updated_at        |-> profile.updated_at])]

-----------------------------------------------------------------------------
(***************************************************************************)
(* BehaviorModel.record_transaction                                        *)
(***************************************************************************)
\* Mutant of IsBaselineEligible: only z > 1.5 excludes the amount.
IsBaselineEligible_ExcludesAboveOnly(profile, amount) ==
    IF profile # None /\ RLess(RInt(0), profile[1].amount_std_sq)
    THEN LET delta == RSub(RInt(amount), profile[1].amount_mean) IN
         ~RLess(RMul(RInt(9), profile[1].amount_std_sq),
                RMul(RInt(4), RSquare(delta)))
    ELSE TRUE

\* is_baseline_eligible, lines 215-232: with a profile whose amount_std > 0,
\* |amount - mean| / std >= 1.5 excludes the amount; otherwise it is eligible.
\* z >= 3/2 is decided on the squares: 4 (amount - mean)^2 >= 9 std^2.
IsBaselineEligible(profile, amount) ==
    IF profile # None /\ RLess(RInt(0), profile[1].amount_std_sq)
    THEN LET delta == RSub(RInt(amount), profile[1].amount_mean) IN
         ~RLeq(RMul(RInt(9), profile[1].amount_std_sq),
               RMul(RInt(4), RSquare(delta)))
    ELSE TRUE

RecordTransaction(c, d, user_id, amount, hour, t, outcome) ==
    LET g == GetProfile(c, d, user_id) IN
    IF g.result # "ok"
    THEN [cache |-> g.cache, disk |-> d, result |-> g.result,
          update_baseline |-> FALSE]
    ELSE LET eligible == IsBaselineEligible(g.profile, amount)
             r == UpdateWithTransaction(g.cache, d, user_id, amount, hour,
                                        eligible, t, outcome)
         IN  [cache |-> r.cache, disk |-> r.disk, result |-> r.result,
              update_baseline |-> eligible]

-----------------------------------------------------------------------------
(***************************************************************************)
(* The calls on the profile store, as steps.  Every call may find that the *)
(* clock has moved on since the one before it, and its storage write, if   *)
(* it comes to one, may fail.                                              *)
(***************************************************************************)
ClockReadings == {t \in now .. now + 1 : t <= MaxClock}

\* Of the ways a write may end, those explored: a write fails while fewer
\* than MaxFailures writes have failed.
Possible(outcomes) ==
    {outcome \in outcomes : outcome = "written" \/ failures < MaxFailures}

\* What get_profile(user_id) returns in the current state.
Stored(user_id) == GetProfile(cache, disk, user_id).profile

\* The history of folded amounts: how many, their sum, the sum of their squares.
NothingFolded == [n |-> 0, sum |-> 0, sumsq |-> 0]
Fold(f, amount) ==
    [n |-> f.n + 1, sum |-> f.sum + amount, sumsq |-> f.sumsq + amount * amount]

\* A call that would learn is explored while the counts are below MaxTxn.
WithinBounds(user_id) ==
    LET profile == Stored(user_id) IN
    IF profile = None THEN TRUE
    ELSE IF ~profile[1].learning_enabled THEN TRUE
    ELSE /\ profile[1].transaction_count < MaxTxn
         /\ profile[1].amount_count < MaxTxn

Learns(user_id, update_baseline) ==
    LET g == GetProfile(cache, disk, user_id) IN
    /\ g.result = "ok"
    /\ g.profile # None
    /\ g.profile[1].learning_enabled
    /\ update_baseline

Effect(r, t) ==
    /\ cache' = r.cache
    /\ disk' = r.disk
    /\ now' = t
    /\ failures' = IF r.result = "OSError" THEN failures + 1 ELSE failures
    /\ UNCHANGED <<policyVars, raceVars, policies, user_profiles>>

CallCreateProfile(user_id, learning_enabled, outcomes) ==
    \E t \in ClockReadings, outcome \in Possible(outcomes) :
        \E r \in {CreateProfile(cache, disk, user_id, learning_enabled, t, outcome)} :
        /\ Effect(r, t)
        /\ folded' = [folded EXCEPT ![user_id] = NothingFolded]
        /\ last' = [op |-> "create_profile", user_id |-> user_id, result |-> r.result]

CallSetLearningEnabled(user_id, enabled, outcomes) ==
    \E t \in ClockReadings, outcome \in Possible(outcomes) :
        \E r \in {SetLearningEnabled(cache, disk, user_id, enabled, t, outcome)} :
        /\ Effect(r, t)
        /\ folded' = IF Stored(user_id) = None
                     THEN [folded EXCEPT ![user_id] = NothingFolded]
                     ELSE folded
        /\ last' = [op |-> "set_learning_enabled", user_id |-> user_id,
                    result |-> r.result, enabled |-> enabled]

CallUpdateWithTransaction(user_id, amount, hour, update_baseline, outcomes) ==
    /\ WithinBounds(user_id)
    /\ \E t \in ClockReadings, outcome \in Possible(outcomes) :
        \E r \in {UpdateWithTransaction(cache, disk, user_id, amount, hour,
                                       update_baseline, t, outcome)} :
        /\ Effect(r, t)
        /\ folded' = IF Learns(user_id, update_baseline)
                     THEN [folded EXCEPT ![user_id] = Fold(@, amount)]
                     ELSE folded
        /\ last' = [op |-> "update_with_transaction", user_id |-> user_id, result |-> r.result]

CallRecordTransaction(user_id, amount, hour, outcomes) ==
    /\ WithinBounds(user_id)
    /\ \E t \in ClockReadings, outcome \in Possible(outcomes) :
        \E r \in {RecordTransaction(cache, disk, user_id, amount, hour, t, outcome)} :
        /\ Effect(r, t)
        /\ folded' = IF Learns(user_id, r.update_baseline)
                     THEN [folded EXCEPT ![user_id] = Fold(@, amount)]
                     ELSE folded
        /\ last' = [op |-> "record_transaction", user_id |-> user_id,
                    result |-> r.result, update_baseline |-> r.update_baseline]

\* The call before this one was the same call, and returned True.
Repeats(op, user_id, location_name) ==
    /\ last.op = op
    /\ last.user_id = user_id
    /\ last.location_name = location_name
    /\ last.result = "True"

CallAddTrustedLocation(user_id, location_name, outcomes) ==
    \E t \in ClockReadings, outcome \in Possible(outcomes) :
        \E r \in {AddTrustedLocation(cache, disk, user_id, location_name, t, outcome)} :
        /\ Effect(r, t)
        /\ UNCHANGED folded
        /\ last' = [op |-> "add_trusted_location", user_id |-> user_id,
                    result |-> r.result, location_name |-> location_name,
                    repeated |-> Repeats("add_trusted_location", user_id,
                                         location_name)]

CallRemoveTrustedLocation(user_id, location_name, outcomes) ==
    \E t \in ClockReadings, outcome \in Possible(outcomes) :
        \E r \in {RemoveTrustedLocation(cache, disk, user_id, location_name, t, outcome)} :
        /\ Effect(r, t)
        /\ UNCHANGED folded
        /\ last' = [op |-> "remove_trusted_location", user_id |-> user_id,
                    result |-> r.result, location_name |-> location_name,
                    repeated |-> Repeats("remove_trusted_location", user_id,
                                         location_name)]

CallResetProfile(user_id, outcomes) ==
    \E t \in ClockReadings, outcome \in Possible(outcomes) :
        \E r \in {ResetProfile(cache, disk, user_id, t, outcome)} :
        /\ Effect(r, t)
        /\ folded' = IF Stored(user_id) # None
                     THEN [folded EXCEPT ![user_id] = NothingFolded]
                     ELSE folded
        /\ last' = [op |-> "reset_profile", user_id |-> user_id, result |-> r.result]

CallDeleteProfile(user_id) ==
    \E t \in ClockReadings :
        \E r \in {DeleteProfile(cache, disk, user_id)} :
        /\ Effect(r, t)
        /\ folded' = [folded EXCEPT ![user_id] = NothingFolded]
        /\ last' = [op |-> "delete_profile", user_id |-> user_id, result |-> r.result]

StoreStep(users, amounts, hours, names, outcomes) ==
    \E user_id \in users :
        \/ \E learning_enabled \in BOOLEAN :
              CallCreateProfile(user_id, learning_enabled, outcomes)
        \/ \E enabled \in BOOLEAN :
              CallSetLearningEnabled(user_id, enabled, outcomes)
        \/ \E amount \in amounts, hour \in hours, update_baseline \in BOOLEAN :
              CallUpdateWithTransaction(user_id, amount, hour, update_baseline,
                                        outcomes)
        \/ \E amount \in amounts, hour \in hours :
              CallRecordTransaction(user_id, amount, hour, outcomes)
        \/ \E location_name \in names :
              CallAddTrustedLocation(user_id, location_name, outcomes)
        \/ \E location_name \in names :
              CallRemoveTrustedLocation(user_id, location_name, outcomes)
        \/ CallResetProfile(user_id, outcomes)
        \/ CallDeleteProfile(user_id)

\* The trusted locations of a profile: creation, consent, the two location
\* operations over two names, reset and deletion.
NextLocations ==
    \E user_id \in StoreUsers :
        \/ \E learning_enabled \in BOOLEAN :
              CallCreateProfile(user_id, learning_enabled, {"written"})
        \/ \E enabled \in BOOLEAN :
              CallSetLearningEnabled(user_id, enabled, {"written"})
        \/ \E location_name \in LocationNames :
              CallAddTrustedLocation(user_id, location_name, {"written"})
        \/ \E location_name \in LocationNames :
              CallRemoveTrustedLocation(user_id, location_name, {"written"})
        \/ CallResetProfile(user_id, {"written"})
        \/ CallDeleteProfile(user_id)

\* get_profile, called for its own sake: the cache may gain the entry.
CallGetProfile(user_id) ==
    \E r \in {GetProfile(cache, disk, user_id)} :
        /\ Effect([cache |-> r.cache, disk |-> disk, result |-> r.result], now)
        /\ UNCHANGED folded
        /\ last' = [op |-> "get_profile", user_id |-> user_id,
                    result |-> r.result, profile |-> r.profile]

CallGetProfileSummary(user_id) ==
    \E r \in {GetProfileSummary(cache, disk, user_id)} :
        /\ Effect([cache |-> r.cache, disk |-> disk, result |-> r.result], now)
        /\ UNCHANGED folded
        /\ last' = [op |-> "get_profile_summary", user_id |-> user_id,
                    result |-> r.result, summary |-> r.summary]

\* The process is started again: a new UserProfileManager over the same
\* storage_dir, with an empty cache.  The history of what the manager has
\* folded starts again with it.
Restart ==
    /\ Effect([cache |-> [u \in Users |-> None], disk |-> disk, result |-> "None"],
              now)
    /\ folded' = [u \in Users |-> NothingFolded]
    /\ last' = [op |-> "restart", user_id |-> <<>>, result |-> "None"]

\* The inputs of the specification with restarts.
DurableAmountInputs == {4}
DurableHourInputs == {0, 24}

\* The profile store with reads, failing writes and restarts.
NextDurable ==
    \/ StoreStep(StoreUsers, DurableAmountInputs, DurableHourInputs,
                 StoreLocationNames, WriteOutcomes)
    \/ \E user_id \in StoreUsers : CallGetProfile(user_id)
    \/ \E user_id \in StoreUsers : CallGetProfileSummary(user_id)
    \/ Restart

\* record_transaction while the profile has counted fewer than max
\* transactions.
CallRecordTransactionUpTo(user_id, amount, hour, outcomes, max) ==
    /\ \E profile \in {Stored(user_id)} :
          IF profile = None THEN TRUE ELSE profile[1].transaction_count < max
    /\ \E t \in ClockReadings, outcome \in Possible(outcomes) :
        \E r \in {RecordTransaction(cache, disk, user_id, amount, hour, t, outcome)} :
        /\ Effect(r, t)
        /\ folded' = IF Learns(user_id, r.update_baseline)
                     THEN [folded EXCEPT ![user_id] = Fold(@, amount)]
                     ELSE folded
        /\ last' = [op |-> "record_transaction", user_id |-> user_id,
                    result |-> r.result, update_baseline |-> r.update_baseline]

\* The inputs of the specification of the summary: five hours, one amount,
\* up to six transactions.
SummaryHourInputs == {0, 1, 7, 12, 23}
SummaryAmountInputs == {4}
MaxSummaryTxn == 6

\* A consenting profile, transactions at several hours, and the summary.
NextSummary ==
    \E user_id \in StoreUsers :
        \/ CallCreateProfile(user_id, TRUE, {"written"})
        \/ \E amount \in SummaryAmountInputs, hour \in SummaryHourInputs :
              CallRecordTransactionUpTo(user_id, amount, hour, {"written"},
                                        MaxSummaryTxn)
        \/ CallGetProfileSummary(user_id)

\* Two user ids that differ only in a character _get_profile_path replaces.
IsolationUsers == {<<"a", "/", "b">>, <<"a", "_", "b">>}
IsolationAmountInputs == {4}
IsolationHourInputs == {0}

MaxIsolationTxn == 1

\* get_profile(user_id) returns nothing, or a profile that names user_id.
\* A call that would load the profile another id wrote, and so share one
\* object between two cache keys, is not explored.
OwnProfile(user_id) ==
    \E profile \in {Stored(user_id)} :
        IF profile = None THEN TRUE ELSE profile[1].user_id = user_id

\* The profile store driven for the two user ids: each operation that is
\* addressed to one user.
NextIsolation ==
    \E user_id \in IsolationUsers :
        \/ CallCreateProfile(user_id, TRUE, {"written"})
        \/ OwnProfile(user_id) /\ CallSetLearningEnabled(user_id, FALSE, {"written"})
        \/ \E amount \in IsolationAmountInputs, hour \in IsolationHourInputs :
              /\ OwnProfile(user_id)
              /\ CallRecordTransactionUpTo(user_id, amount, hour, {"written"},
                                           MaxIsolationTxn)
        \/ OwnProfile(user_id)
              /\ CallAddTrustedLocation(user_id, "home_atm", {"written"})
        \/ OwnProfile(user_id)
              /\ CallRemoveTrustedLocation(user_id, "home_atm", {"written"})
        \/ OwnProfile(user_id) /\ CallResetProfile(user_id, {"written"})
        \/ CallDeleteProfile(user_id)

\* The profile store with storage that does not fail.
NextStore ==
    StoreStep(StoreUsers, AmountInputs, HourInputs, StoreLocationNames, {"written"})

\* The profile store with storage writes that may fail.
NextFaults ==
    StoreStep(StoreUsers, FaultAmountInputs, FaultHourInputs, StoreLocationNames,
              WriteOutcomes)

-----------------------------------------------------------------------------
(***************************************************************************)
(* Concurrent record_transaction calls on one UserProfileManager.          *)
(***************************************************************************)
Threads == {"t1", "t2"}

\* A call that has not begun: the locals of record_transaction,
\* get_profile, update_with_transaction and _save_profile, unset.
Idle ==
    [pc |-> "idle", site |-> "r212", user_id |-> <<>>, amount |-> 0, hour |-> 0,
     profile |-> None, data |-> None, is_baseline_eligible |-> TRUE,
     update_baseline |-> TRUE, loaded |-> 0, n |-> 0,
     old_mean |-> RInt(0), old_std_sq |-> RInt(0)]

\* The user, amounts and hours of the concurrent calls.
RaceUser == <<"u", "1">>
RaceAmountInputs == {4, 8}
RaceHourInputs == {0, 23}

\* sum(profile.hour_histogram)
RECURSIVE SumBuckets(_, _)
SumBuckets(hour_histogram, upto) ==
    IF upto < 0 THEN 0
    ELSE hour_histogram[upto] + SumBuckets(hour_histogram, upto - 1)

HistogramTotal(profile) == SumBuckets(profile.hour_histogram, HoursPerDay - 1)

\* _cache by value: what each entry's object holds now.
CacheOf(r, h) ==
    [u \in Users |-> IF r[u] = None THEN None ELSE Some(h[r[u][1]])]

\* The object a call's local variable profile refers to, as an Optional value.
Held(me) == IF me.profile = None THEN None ELSE Some(heap[me.profile[1]])

\* Where get_profile returns to: record_transaction line 212 goes on at 218,
\* update_with_transaction line 139 goes on at 140.
After(site) == IF site = "r212" THEN "r218" ELSE "u140"

\* One step of one call: its locals, the objects, the cache and the files.
RaceEffect(th, locals, h, r, d) ==
    /\ threads' = [threads EXCEPT ![th] = locals]
    /\ heap' = h
    /\ ref' = r
    /\ cache' = CacheOf(r, h)
    /\ disk' = d
    /\ UNCHANGED <<policyVars, now, failures, folded, last, policies,
                 user_profiles>>

\* The object of the call, with one field assigned.
Assign(me, field, value) ==
    [heap EXCEPT ![me.profile[1]] = [@ EXCEPT ![field] = value]]

\* behavior_model.record_transaction(user_id, amount, hour) is entered.
BeginRecordTransaction(th, user_id, amount, hour) ==
    LET me == threads[th] IN
    /\ me.pc = "idle"
    /\ RaceEffect(th, [me EXCEPT !.pc = "g95", !.site = "r212",
                                 !.user_id = user_id, !.amount = amount,
                                 !.hour = hour],
                  heap, ref, disk)

\* get_profile, lines 95-99 and 105: the cached object, or no file.
GetProfileCached(th) ==
    LET me == threads[th] IN
    /\ me.pc = "g95"
    /\ IF ref[me.user_id] # None
       THEN RaceEffect(th, [me EXCEPT !.pc = After(me.site),
                                      !.profile = ref[me.user_id]],
                       heap, ref, disk)
       ELSE IF disk[ProfilePath(me.user_id)] = None
       THEN RaceEffect(th, [me EXCEPT !.pc = After(me.site), !.profile = None],
                       heap, ref, disk)
       ELSE RaceEffect(th, [me EXCEPT !.pc = "g100"], heap, ref, disk)

\* get_profile, lines 100-101: the file is opened and parsed.
GetProfileLoad(th) ==
    LET me == threads[th]
        file == disk[ProfilePath(me.user_id)]
    IN  /\ me.pc = "g100"
        /\ IF file = None
           THEN RaceEffect(th, [me EXCEPT !.pc = "raised"], heap, ref, disk)
           ELSE IF ~file[1].complete
           THEN RaceEffect(th, [me EXCEPT !.pc = "raised"], heap, ref, disk)
           ELSE RaceEffect(th, [me EXCEPT !.pc = "g102", !.data = file[1].data],
                           heap, ref, disk)

\* get_profile, lines 102-104: a new object, put in the cache and returned.
GetProfileStore(th) ==
    LET me == threads[th]
        made == Len(heap) + 1
    IN  /\ me.pc = "g102"
        /\ RaceEffect(th, [me EXCEPT !.pc = After(me.site), !.profile = Some(made)],
                      Append(heap, FromDict(me.data[1])),
                      [ref EXCEPT ![me.user_id] = Some(made)],
                      disk)

\* record_transaction, lines 215-232, and the call on line 235.
CheckEligibility(th) ==
    LET me == threads[th] IN
    /\ me.pc = "r218"
    /\ RaceEffect(th, [me EXCEPT !.pc = "g95", !.site = "u139",
                         !.is_baseline_eligible =
                             IsBaselineEligible(Held(me), me.amount),
                         !.update_baseline =
                             IsBaselineEligible(Held(me), me.amount)],
                  heap, ref, disk)

\* update_with_transaction, lines 140-149.
CheckConsent(th) ==
    LET me == threads[th] IN
    /\ me.pc = "u140"
    /\ RaceEffect(th, [me EXCEPT !.pc = IF ~MayLearn(Held(me)) THEN "returned"
                                        ELSE IF me.update_baseline THEN "u150"
                                        ELSE "u167"],
                  heap, ref, disk)

\* The read of an x += 1: amount_count (150), hour_histogram[hour] (167),
\* transaction_count (168).
LoadCounter(th) ==
    LET me == threads[th]
        object == heap[me.profile[1]]
        bucket == ListIndex(me.hour, HoursPerDay)
    IN  /\ me.pc \in {"u150", "u167", "u168"}
        /\ IF me.pc = "u150"
           THEN RaceEffect(th, [me EXCEPT !.pc = "u150s",
                                          !.loaded = object.amount_count],
                           heap, ref, disk)
           ELSE IF me.pc = "u168"
           THEN RaceEffect(th, [me EXCEPT !.pc = "u168s",
                                          !.loaded = object.transaction_count],
                           heap, ref, disk)
           ELSE IF bucket = None
           THEN RaceEffect(th, [me EXCEPT !.pc = "raised"], heap, ref, disk)
           ELSE RaceEffect(th, [me EXCEPT !.pc = "u167s",
                                          !.loaded = object.hour_histogram[bucket[1]]],
                           heap, ref, disk)

\* The write of an x += 1.
StoreCounter(th) ==
    LET me == threads[th]
        object == heap[me.profile[1]]
    IN  /\ me.pc \in {"u150s", "u167s", "u168s"}
        /\ IF me.pc = "u150s"
           THEN RaceEffect(th, [me EXCEPT !.pc = "u151"],
                           Assign(me, "amount_count", me.loaded + 1), ref, disk)
           ELSE IF me.pc = "u168s"
           THEN RaceEffect(th, [me EXCEPT !.pc = "s115"],
                           Assign(me, "transaction_count", me.loaded + 1), ref, disk)
           ELSE RaceEffect(th, [me EXCEPT !.pc = "u168"],
                           Assign(me, "hour_histogram",
                                  [object.hour_histogram EXCEPT
                                      ![ListIndex(me.hour, HoursPerDay)[1]] =
                                          me.loaded + 1]),
                           ref, disk)

\* update_with_transaction, lines 151 and 153.
ReadCount(th) ==
    LET me == threads[th]
        n == heap[me.profile[1]].amount_count
    IN  /\ me.pc = "u151"
        /\ RaceEffect(th, [me EXCEPT !.n = n,
                                     !.pc = IF n = 1 THEN "u154" ELSE "u157"],
                      heap, ref, disk)

\* update_with_transaction, lines 154 and 155.
FirstSample(th) ==
    LET me == threads[th] IN
    /\ me.pc \in {"u154", "u155"}
    /\ IF me.pc = "u154"
       THEN RaceEffect(th, [me EXCEPT !.pc = "u155"],
                       Assign(me, "amount_mean", RInt(me.amount)), ref, disk)
       ELSE RaceEffect(th, [me EXCEPT !.pc = "u167"],
                       Assign(me, "amount_std_sq", RInt(0)), ref, disk)

\* update_with_transaction, lines 157 and 158.
UpdateMean(th) ==
    LET me == threads[th] IN
    /\ me.pc \in {"u157", "u158"}
    /\ IF me.pc = "u157"
       THEN RaceEffect(th, [me EXCEPT !.pc = "u158",
                              !.old_mean = heap[me.profile[1]].amount_mean],
                       heap, ref, disk)
       ELSE RaceEffect(th, [me EXCEPT !.pc = "u160"],
                       Assign(me, "amount_mean",
                              RAdd(me.old_mean,
                                   RDiv(RSub(RInt(me.amount), me.old_mean),
                                        RInt(me.n)))),
                       ref, disk)

\* update_with_transaction, lines 160 and 161-162.
UpdateStd(th) ==
    LET me == threads[th] IN
    /\ me.pc \in {"u160", "u161"}
    /\ IF me.pc = "u160"
       THEN RaceEffect(th, [me EXCEPT !.pc = "u161",
                              !.old_std_sq = heap[me.profile[1]].amount_std_sq],
                       heap, ref, disk)
       ELSE RaceEffect(th, [me EXCEPT !.pc = "u167"],
                       Assign(me, "amount_std_sq",
                              RMax(RInt(0),
                                   RAdd(RMul(Rat(me.n - 2, me.n - 1), me.old_std_sq),
                                        RDiv(RSquare(RSub(RInt(me.amount), me.old_mean)),
                                             RInt(me.n))))),
                       ref, disk)

\* _save_profile, a line at a time: updated_at (115), the cache (116),
\* open(path, 'w') which empties the file (118), json.dump (119).
SaveProfileStep(th) ==
    LET me == threads[th]
        object == heap[me.profile[1]]
        path == ProfilePath(object.user_id)
    IN  /\ me.pc \in {"s115", "s116", "s118", "s119"}
        /\ CASE me.pc = "s115" ->
                   RaceEffect(th, [me EXCEPT !.pc = "s116"],
                              Assign(me, "updated_at", now), ref, disk)
             [] me.pc = "s116" ->
                   RaceEffect(th, [me EXCEPT !.pc = "s118"], heap,
                              [ref EXCEPT ![object.user_id] = me.profile], disk)
             [] me.pc = "s118" ->
                   RaceEffect(th, [me EXCEPT !.pc = "s119"], heap, ref,
                              [disk EXCEPT ![path] = Some(TruncatedFile)])
             [] me.pc = "s119" ->
                   RaceEffect(th, [me EXCEPT !.pc = "returned"], heap, ref,
                              [disk EXCEPT ![path] = Some(JsonFile(ToDict(object)))])

NextRace ==
    \E th \in Threads :
        \/ \E amount \in RaceAmountInputs, hour \in RaceHourInputs :
              BeginRecordTransaction(th, RaceUser, amount, hour)
        \/ GetProfileCached(th)
        \/ GetProfileLoad(th)
        \/ GetProfileStore(th)
        \/ CheckEligibility(th)
        \/ CheckConsent(th)
        \/ LoadCounter(th)
        \/ StoreCounter(th)
        \/ ReadCount(th)
        \/ FirstSample(th)
        \/ UpdateMean(th)
        \/ UpdateStd(th)
        \/ SaveProfileStep(th)

-----------------------------------------------------------------------------
(***************************************************************************)
(* BehaviorModel.analyze.  Scores are in thousandths, the three decimals   *)
(* the code rounds to.  A transaction is the dictionary the caller builds: *)
(* amount, hour_of_day, current_location (None or a name).                  *)
(***************************************************************************)
ScoreScale == 1000

\* analyze, line 66: the number of transactions below which no analysis is made.
MinTransactions == 5

\* z >= n / d, for z >= 0 given by its square.
ZAtLeast(z_sq, n, d) == n * n * z_sq[2] <= z_sq[1] * d * d

\* The least z whose risk rounds to k thousandths or more, as <<n, d>>:
\* risk is (z - 1) * 0.3 up to z = 2, 0.3 + (z - 2) * 0.4 up to z = 3, and
\* 0.7 + (z - 3) * 0.3 beyond.
LeastZFor(k) ==
    IF k <= 300 THEN <<599 + 2 * k, 600>>
    ELSE IF k <= 700 THEN <<999 + 2 * k, 800>>
    ELSE <<399 + 2 * k, 600>>

\* The highest k in lo .. hi whose least z is reached; lo is known to be.
RECURSIVE HighestRisk(_, _, _)
HighestRisk(z_sq, lo, hi) ==
    IF lo = hi THEN lo
    ELSE LET mid == (lo + hi + 1) \div 2 IN
         IF ZAtLeast(z_sq, LeastZFor(mid)[1], LeastZFor(mid)[2])
         THEN HighestRisk(z_sq, mid, hi)
         ELSE HighestRisk(z_sq, lo, mid - 1)

\* _analyze_amount, from the z-score on: round(risk, 3) and the reason.  A
\* risk that lies exactly half way between two thousandths is taken to the
\* upper one.
AmountScored(z_sq, higher) ==
    [score  |-> IF ZAtLeast(z_sq, 4, 1) THEN ScoreScale
                ELSE HighestRisk(z_sq, 0, ScoreScale),
     reason |-> IF RLess(RInt(4), z_sq)
                THEN IF higher THEN "Amount is higher than usual"
                     ELSE "Amount is lower than usual"
                ELSE "Amount is within normal range"]

\* _analyze_amount
AnalyzeAmount(amount, profile) ==
    IF profile.amount_std_sq[1] = 0
    THEN [score |-> 0, reason |-> "Amount variance not yet established"]
    ELSE AmountScored(RDiv(RSquare(RSub(RInt(amount), profile.amount_mean)),
                           profile.amount_std_sq),
                      RLess(profile.amount_mean, RInt(amount)))

\* _analyze_time, from the frequency on: the share of the hour's count in
\* the total.
TimeScored(count, total_txns) ==
    [result |-> "ok",
     score  |-> IF 10 * count >= total_txns THEN 0
                ELSE IF 20 * count >= total_txns THEN 300
                ELSE IF 100 * count >= total_txns THEN 600
                ELSE IF count > 0 THEN 800
                ELSE ScoreScale,
     reason |-> IF 20 * count < total_txns
                THEN "Unusual transaction time"
                ELSE "Transaction time matches typical patterns"]

\* _analyze_time, once the histogram has been summed.
TimeOf(bucket, total_txns, profile) ==
    IF total_txns = 0
    THEN [result |-> "ok", score |-> 0,
          reason |-> "Time pattern not yet established"]
    ELSE IF bucket = None
    THEN [result |-> "IndexError", score |-> 0, reason |-> ""]
    ELSE TimeScored(profile.hour_histogram[bucket[1]], total_txns)

\* _analyze_time
AnalyzeTime(hour, profile) ==
    TimeOf(ListIndex(hour, HoursPerDay),
           SumBuckets(profile.hour_histogram, HoursPerDay - 1), profile)

\* _analyze_location: the name against the names of the trusted locations.
AnalyzeLocation(location, profile) ==
    IF location = None \/ location = Some("")
    THEN [score |-> 0, reason |-> "Location not provided"]
    ELSE IF profile.trusted_locations = <<>>
    THEN [score |-> 0, reason |-> "No trusted locations defined"]
    ELSE IF \E i \in 1 .. Len(profile.trusted_locations) :
                profile.trusted_locations[i].name = location[1]
    THEN [score |-> 0, reason |-> "Transaction from trusted location"]
    ELSE [score |-> 700, reason |-> "Transaction from untrusted location"]

\* round(min(1.0, 0.5 * amount + 0.25 * time + 0.25 * location), 3); a sum
\* half way between two thousandths goes to the even one.
CombinedScore(amount_score, time_score, location_score) ==
    LET quarters == 2 * amount_score + time_score + location_score
        capped == IF quarters > 4 * ScoreScale THEN 4 * ScoreScale ELSE quarters
        q == capped \div 4
        r == capped % 4
    IN  IF r < 2 THEN q
        ELSE IF r > 2 THEN q + 1
        ELSE IF q % 2 = 0 THEN q ELSE q + 1

\* The component reasons whose score is above 0.3, in the code's order.
Explanations(amount, time, location) ==
    (IF amount.score > 300 THEN <<amount.reason>> ELSE <<>>)
        \o (IF time.score > 300 THEN <<time.reason>> ELSE <<>>)
        \o (IF location.score > 300 THEN <<location.reason>> ELSE <<>>)

\* Mutant of IsNeutral: the consent flag is not looked at.
IsNeutral_IgnoresConsent(profile) == profile = None

\* The profile is looked at before the consent flag is.
IsNeutral(profile) == profile = None \/ ~profile[1].learning_enabled

\* analyze, lines 84-116: the components combined.
Combined(c, amount, time, location) ==
    IF time.result # "ok"
    THEN [cache |-> c, result |-> time.result,
          behavior_anomaly_score |-> 0, explanation |-> <<>>,
          status |-> None, count |-> None]
    ELSE [cache |-> c, result |-> "ok",
          behavior_anomaly_score |->
              CombinedScore(amount.score, time.score, location.score),
          explanation |->
              IF amount.score <= 300 /\ time.score <= 300 /\ location.score <= 300
              THEN <<"Transaction matches learned behavioral patterns">>
              ELSE Explanations(amount, time, location),
          status |-> None, count |-> None]

\* analyze, from line 57 on: g is what get_profile gave.
AnalyzeLoaded(g, transaction) ==
    IF g.result # "ok"
    THEN [cache |-> g.cache, result |-> g.result, behavior_anomaly_score |-> 0,
          explanation |-> <<>>, status |-> None, count |-> None]
    ELSE IF IsNeutral(g.profile)
    THEN [cache |-> g.cache, result |-> "ok", behavior_anomaly_score |-> 0,
          explanation |-> <<"Behavior learning not enabled for this user">>,
          status |-> Some("learning_disabled"), count |-> None]
    ELSE IF g.profile[1].transaction_count < MinTransactions
    THEN [cache |-> g.cache, result |-> "ok", behavior_anomaly_score |-> 0,
          explanation |-> <<"Insufficient data">>,
          status |-> Some("insufficient_data"),
          count |-> Some(g.profile[1].transaction_count)]
    ELSE Combined(g.cache,
                  AnalyzeAmount(transaction.amount, g.profile[1]),
                  AnalyzeTime(transaction.hour_of_day, g.profile[1]),
                  AnalyzeLocation(transaction.current_location, g.profile[1]))

\* analyze.  'result' is "ok" when the call returns and the exception's name
\* when it raises; 'status' is details['status'], None when a real analysis
\* was made; 'count' is the count the explanation names.
Analyze(c, d, user_id, transaction) ==
    AnalyzeLoaded(GetProfile(c, d, user_id), transaction)

-----------------------------------------------------------------------------
(***************************************************************************)
(* FeatureExtractor.extract and RiskEngine.compute_risk.  Features are in  *)
(* thousandths; a risk score is in units of 1 / RiskScale.                  *)
(***************************************************************************)
RAbs(x) == <<Abs(x[1]), x[2]>>

\* The integer nearest to x >= 0, a tie going to the even neighbour.
RoundHalfEven(x) ==
    LET q == x[1] \div x[2]
        r == x[1] % x[2]
    IN  IF 2 * r < x[2] THEN q
        ELSE IF 2 * r > x[2] THEN q + 1
        ELSE IF q % 2 = 0 THEN q ELSE q + 1

\* _calculate_amount_anomaly, lines 99-110: the z-score against the
\* historical mean and standard deviation, or the ratio-based one when there
\* is no deviation.
RatioZScore(ratio) ==
    IF RLeq(ratio, RInt(1)) THEN RInt(0)
    ELSE RMul(RSub(ratio, RInt(1)), Rat(3, 2))

ZScore(amount, avg, user_std) ==
    IF user_std[1] = 0 THEN RatioZScore(RDiv(amount, avg))
    ELSE RDiv(RAbs(RSub(amount, avg)), user_std)

\* Mutant of CapRisk: the risk is not capped.
CapRisk_Uncapped(risk) == risk

\* min(1.0, risk), in thousandths.
CapRisk(risk) == IF RLess(RInt(ScoreScale), risk) THEN RInt(ScoreScale) ELSE risk

\* _calculate_amount_anomaly, lines 118-126: the z-score mapped to a risk.
ZRisk(z_score) ==
    IF RLess(z_score, RInt(2))
    THEN RMul(z_score, RInt(150))
    ELSE IF RLess(z_score, RInt(3))
    THEN RAdd(RInt(300), RMul(RSub(z_score, RInt(2)), RInt(300)))
    ELSE CapRisk(RAdd(RInt(600), RMul(RSub(z_score, RInt(3)), RInt(200))))

\* _calculate_amount_anomaly: a mean of 0 is taken as 1, and the risk is
\* rounded to three decimals.
AmountAnomaly(amount, user_avg, user_std) ==
    RoundHalfEven(ZRisk(ZScore(amount,
                               IF user_avg[1] = 0 THEN Rat(1, AmountUnit)
                               ELSE user_avg,
                               user_std)))

\* _calculate_behavior_anomaly
BehaviorAnomaly(location_changed, hour) ==
    LET place == IF location_changed THEN 400 ELSE 0
        night == IF hour >= 23 \/ hour <= 5 THEN 300
                 ELSE IF 5 < hour /\ hour <= 8 THEN 100
                 ELSE 0
    IN  IF place + night > ScoreScale THEN ScoreScale ELSE place + night

\* _calculate_retry_risk: retry_count / max_retry_count, at most 1.
RetryRisk(retry_count) ==
    IF retry_count = 0 THEN 0
    ELSE IF retry_count * 200 > ScoreScale THEN ScoreScale
    ELSE retry_count * 200

\* _calculate_liveness_risk; the confidence is in thousandths.
LivenessRisk(liveness_passed, confidence) ==
    IF liveness_passed THEN ScoreScale - confidence
    ELSE RoundHalfEven(Rat(7000 + 3 * (ScoreScale - confidence), 10))

\* extract: the four features of the transaction dictionary.
Extract(transaction) ==
    [amount_anomaly   |-> AmountAnomaly(transaction.amount,
                                        transaction.user_avg_amount,
                                        transaction.user_std_amount),
     behavior_anomaly |-> BehaviorAnomaly(transaction.location_changed,
                                          transaction.hour_of_day),
     retry_risk       |-> RetryRisk(transaction.retry_count),
     liveness_risk    |-> LivenessRisk(transaction.liveness_passed,
                                       transaction.liveness_confidence)]

\* RiskEngine.weights, in hundredths.
Weights ==
    [amount_anomaly      |-> 20,
     behavior_anomaly    |-> 15,
     retry_risk          |-> 20,
     liveness_risk       |-> 15,
     ml_behavior_anomaly |-> 30]

\* features.get(key, 0)
Feature(features, key) ==
    IF key \in DOMAIN features THEN features[key] ELSE 0

\* Mutant of Weighted: every feature is given the weight of the first.
Weighted_OneWeight(features, key) ==
    Feature(features, key) * Weights["amount_anomaly"]

\* value * weight of a feature that is present and has a weight.
Weighted(features, key) == Feature(features, key) * Weights[key]

\* _generate_reasons: the headline by the overall risk, then a line for
\* each of the five features.
GenerateReasons(features, overall_risk) ==
    LET amount_risk == Feature(features, "amount_anomaly")
        behavior_risk == Feature(features, "behavior_anomaly")
        retry_risk == Feature(features, "retry_risk")
        liveness_risk == Feature(features, "liveness_risk")
        ml_behavior_risk == Feature(features, "ml_behavior_anomaly")
    IN  <<IF overall_risk < 30000 THEN "Transaction appears normal"
          ELSE IF overall_risk < 60000 THEN "Transaction flagged for review"
          ELSE "High-risk transaction detected">>
        \o <<IF amount_risk >= 800
             THEN "Transaction amount significantly exceeds user's typical spending"
             ELSE IF amount_risk >= 500
             THEN "Transaction amount is higher than usual"
             ELSE "Transaction amount is within normal range">>
        \o <<IF behavior_risk >= 700
             THEN "Unusual location and time pattern detected"
             ELSE IF behavior_risk >= 400
             THEN "Transaction from unusual location or time"
             ELSE "Transaction behavior matches user patterns">>
        \o <<IF retry_risk >= 800
             THEN "Multiple failed attempts detected (possible card testing)"
             ELSE IF retry_risk >= 600 THEN "Several retry attempts detected"
             ELSE IF retry_risk >= 400 THEN "Multiple retry attempts noted"
             ELSE IF retry_risk > 0 THEN "Minimal retry attempts"
             ELSE "No previous failed attempts">>
        \o <<IF liveness_risk >= 800
             THEN "Liveness verification failed or low confidence"
             ELSE IF liveness_risk >= 500
             THEN "Liveness verification shows moderate concern"
             ELSE "Liveness verification passed">>
        \o (IF ml_behavior_risk >= 700
            THEN <<"ML: Significant deviation from learned behavior patterns">>
            ELSE IF ml_behavior_risk >= 400
            THEN <<"ML: Transaction differs from typical user patterns">>
            ELSE IF ml_behavior_risk > 0
            THEN <<"ML: Transaction aligns with learned patterns">>
            ELSE <<>>)

\* compute_risk, lines 65-72: the sum rounded to three decimals, and the
\* reasons for the rounded score.
RiskOf(features, risk_score) ==
    [risk_score |-> risk_score,
     reasons    |-> GenerateReasons(features, risk_score)]

\* compute_risk: the weighted sum over the features that have a weight.
ComputeRisk(features) ==
    RiskOf(features,
           RoundHalfEven(Rat(Weighted(features, "amount_anomaly")
                               + Weighted(features, "behavior_anomaly")
                               + Weighted(features, "retry_risk")
                               + Weighted(features, "liveness_risk")
                               + Weighted(features, "ml_behavior_anomaly"),
                             100)) * 100)

-----------------------------------------------------------------------------
(***************************************************************************)
(* The routes: POST /me/policies and POST /assess-transaction.             *)
(***************************************************************************)

\* UserDataManager.save_policies: the policies dictionary is stored under
\* the user id and success is reported.
SavePolicies(ps, user_id, policies_dict) ==
    [policies |-> [ps EXCEPT ![user_id] = Some(policies_dict)],
     success  |-> TRUE]

\* A saved policy is violated by a request: the amount is above the
\* maximum, the location is not among the allowed ones, or the hour is
\* outside the allowed window.
PolicyViolated(saved, request) ==
    /\ saved # None
    /\ \/ /\ saved[1].max_transaction_amount # None
          /\ request.amount > saved[1].max_transaction_amount[1]
       \/ /\ saved[1].allowed_locations # None
          /\ saved[1].block_unknown_locations
          /\ \/ request.current_location = None
             \/ request.current_location[1] \notin saved[1].allowed_locations[1]
       \/ /\ saved[1].allowed_time_range # None
          /\ \/ request.hour_of_day < saved[1].allowed_time_range[1].start
             \/ request.hour_of_day >= saved[1].allowed_time_range[1].end

\* The dictionary assess_transaction hands to extract: the baseline is the
\* one of the user's row, or the request's own mean and no deviation.
TransactionData(request, db_profile) ==
    [amount              |-> RInt(request.amount),
     user_avg_amount     |-> IF request.user_id # None /\ db_profile # None
                             THEN db_profile[1].amount_mean
                             ELSE RInt(request.user_avg_amount),
     user_std_amount     |-> IF request.user_id # None /\ db_profile # None
                             THEN db_profile[1].amount_std
                             ELSE RInt(0),
     retry_count         |-> request.retry_count,
     location_changed    |-> request.location_changed,
     hour_of_day         |-> request.hour_of_day,
     liveness_passed     |-> request.liveness_passed,
     liveness_confidence |-> request.liveness_confidence]

\* Step 2: analyze for a request with a user_id, 0.0 for one without.
BehaviorResult(c, d, request) ==
    IF request.user_id # None
    THEN Analyze(c, d, request.user_id[1],
                 [amount           |-> request.amount,
                  hour_of_day      |-> request.hour_of_day,
                  current_location |-> request.current_location])
    ELSE [cache |-> c, result |-> "ok", behavior_anomaly_score |-> 0,
          explanation |-> <<>>, status |-> None, count |-> None]

\* features['ml_behavior_anomaly'] = ...
WithBehavior(extracted, behavior_anomaly_score) ==
    [key \in DOMAIN extracted \cup {"ml_behavior_anomaly"} |->
        IF key = "ml_behavior_anomaly" THEN behavior_anomaly_score
        ELSE extracted[key]]

\* Steps 4 and 6: decide, and the response built from its result.
Response(decision_result, features) ==
    [decision   |-> decision_result.decision,
     risk_score |-> decision_result.risk_score,
     reasons    |-> decision_result.reasons,
     features   |-> features]

\* Step 3, then step 4.
Decided(at, bt, risk, features) ==
    Response(Decide(at, bt, risk.risk_score, Some(risk.reasons)), features)

RiskDecided(at, bt, features) == Decided(at, bt, ComputeRisk(features), features)

ScoredWith(at, bt, extracted, behavior_result) ==
    [cache    |-> behavior_result.cache,
     result   |-> behavior_result.result,
     response |-> RiskDecided(at, bt,
                              WithBehavior(extracted,
                                           behavior_result.behavior_anomaly_score))]

\* Steps 0 to 4 of assess_transaction over the store as it is given: the
\* baseline, extract, analyze (with a user_id), compute_risk, decide.
\* 'result' is "ok" or the name of the exception analyze raised.
Scored(c, d, at, bt, request, db_profile) ==
    ScoredWith(at, bt, Extract(TransactionData(request, db_profile)),
               BehaviorResult(c, d, request))

\* Mutant of Assess: the transaction is recorded first and scored after.
Assess_RecordsFirst(c, d, at, bt, request, db_profile, t, outcome) ==
    IF request.user_id = None
    THEN \* nothing to record
         [cache |-> c, disk |-> d, result |-> "ok", detail |-> "None",
          response |-> Some(Scored(c, d, at, bt, request, db_profile).response),
          update_baseline |-> FALSE,
          trace |-> <<"extract", "compute_risk", "decide">>]
    ELSE LET r == RecordTransaction(c, d, request.user_id[1], request.amount,
                                    request.hour_of_day, t, outcome)
         IN  IF r.result # "None"
             THEN [cache |-> r.cache, disk |-> r.disk, result |-> "HTTPException",
                   detail |-> r.result, response |-> None,
                   update_baseline |-> r.update_baseline,
                   trace |-> <<"record_transaction">>]
             ELSE [cache |-> r.cache, disk |-> r.disk, result |-> "ok",
                   detail |-> "None",
                   response |-> Some(Scored(r.cache, r.disk, at, bt, request,
                                            db_profile).response),
                   update_baseline |-> r.update_baseline,
                   trace |-> <<"record_transaction", "extract", "analyze",
                               "compute_risk", "decide">>]

\* Step 5 and the return: r is what record_transaction gave.
Recorded(s, r) ==
    [cache |-> r.cache, disk |-> r.disk,
     result |-> IF r.result = "None" THEN "ok" ELSE "HTTPException",
     detail |-> r.result,
     response |-> IF r.result = "None" THEN Some(s.response) ELSE None,
     update_baseline |-> r.update_baseline,
     trace |-> <<"extract", "analyze", "compute_risk", "decide",
                 "record_transaction">>]

\* assess_transaction from step 5 on: s is what steps 0 to 4 gave.
AssessScored(s, d, request, t, outcome) ==
    IF s.result # "ok"
    THEN [cache |-> s.cache, disk |-> d, result |-> "HTTPException",
          detail |-> s.result,
          response |-> None, update_baseline |-> FALSE,
          trace |-> <<"extract", "analyze">>]
    ELSE IF request.user_id = None
    THEN [cache |-> s.cache, disk |-> d, result |-> "ok", detail |-> "None",
          response |-> Some(s.response), update_baseline |-> FALSE,
          trace |-> <<"extract", "compute_risk", "decide">>]
    ELSE Recorded(s, RecordTransaction(s.cache, d, request.user_id[1],
                                       request.amount, request.hour_of_day,
                                       t, outcome))

\* assess_transaction: scoring over the store as the request finds it, then
\* record_transaction when the request carries a user_id.  An exception of
\* any step is turned into HTTP 500 and no assessment is returned.  'trace'
\* lists the calls into the core in the order they were made.
Assess(c, d, at, bt, request, db_profile, t, outcome) ==
    AssessScored(Scored(c, d, at, bt, request, db_profile), d, request, t, outcome)

\* The bounds of the assessment specification.
MaxAssessed == 6

\* The requests POST /assess-transaction is driven with: for a user,
\* amounts on both sides of the default mean at a night hour and a day hour,
\* from a location; and one request without a user_id.
AssessAmountInputs == {4, 8}
AssessHourInputs == {3, 12}

AssessRequests ==
    [amount              : AssessAmountInputs,
     user_avg_amount     : {DefaultAmountMean},
     retry_count         : {0},
     location_changed    : {FALSE},
     hour_of_day         : AssessHourInputs,
     liveness_passed     : {TRUE},
     liveness_confidence : {900},
     user_id             : {Some(u) : u \in StoreUsers},
     current_location    : {Some("office_branch")}]
    \cup
    [amount              : {8},
     user_avg_amount     : {DefaultAmountMean},
     retry_count         : {2},
     location_changed    : {TRUE},
     hour_of_day         : {3},
     liveness_passed     : {FALSE},
     liveness_confidence : {900},
     user_id             : {None},
     current_location    : {None}]

\* What ProfileRepository.get_profile_by_username finds: no row, or the
\* baseline of the uploaded history.
DbProfiles ==
    {None, Some([amount_mean |-> RInt(DefaultAmountMean),
                 amount_std  |-> RInt(DefaultAmountStd)])}

\* The policies POST /me/policies is driven with.
PolicyInputs ==
    {[max_transaction_amount  |-> Some(6),
      allowed_locations       |-> Some({"office_branch"}),
      allowed_time_range      |-> Some([start |-> 0, end |-> HoursPerDay]),
      block_unknown_locations |-> TRUE]}

\* The transactions analyze is called with directly.
AnalyzeInputs ==
    [amount           : {8},
     hour_of_day      : {3, HoursPerDay},
     current_location : {Some("office_branch")}]

\* The user's profile, if there is one, has counted fewer than max
\* transactions.
AssessWithinBounds(request, max) ==
    IF request.user_id = None THEN TRUE
    ELSE LET profile == Stored(request.user_id[1]) IN
         IF profile = None THEN TRUE
         ELSE /\ profile[1].transaction_count < max
              /\ profile[1].amount_count < max

CallAnalyze(user_id, transaction) ==
    \E r \in {Analyze(cache, disk, user_id, transaction)} :
        /\ Effect([cache |-> r.cache, disk |-> disk, result |-> r.result], now)
        /\ UNCHANGED folded
        /\ last' = [op |-> "analyze", user_id |-> user_id,
                    transaction |-> transaction, result |-> r.result,
                    analysis |-> r]

\* save_my_policies
CallSaveMyPolicies(user_id, policies_dict) ==
    \E r \in {SavePolicies(policies, user_id, policies_dict)} :
        /\ policies' = r.policies
        /\ last' = [op |-> "save_my_policies", user_id |-> user_id,
                    result |-> IF r.success THEN "ok" ELSE "HTTPException"]
        /\ UNCHANGED <<policyVars, storeVars, raceVars, user_profiles>>

CallAssessTransaction(request, db_profile, outcomes, max) ==
    /\ AssessWithinBounds(request, max)
    /\ \E t \in ClockReadings, outcome \in Possible(outcomes) :
        \E r \in {Assess(cache, disk, allow_threshold, block_threshold,
                         request, db_profile, t, outcome)} :
        /\ Effect([cache |-> r.cache, disk |-> r.disk, result |-> r.detail], t)
        /\ folded' = IF request.user_id = None THEN folded
                     ELSE IF Learns(request.user_id[1], r.update_baseline)
                     THEN [folded EXCEPT ![request.user_id[1]] =
                              Fold(@, request.amount)]
                     ELSE folded
        /\ last' = [op |-> "assess_transaction", user_id |-> request.user_id,
                    result |-> r.result, request |-> request,
                    db_profile |-> db_profile, response |-> r.response,
                    trace |-> r.trace]

\* The assessment service: profiles are created, consent is given and
\* withdrawn, a location is trusted, and transactions are analysed and
\* assessed.
NextAssess ==
    \/ \E user_id \in StoreUsers :
          \/ \E learning_enabled \in BOOLEAN :
                CallCreateProfile(user_id, learning_enabled, {"written"})
          \/ \E enabled \in BOOLEAN :
                CallSetLearningEnabled(user_id, enabled, {"written"})
          \/ CallAddTrustedLocation(user_id, "home_atm", {"written"})
          \/ \E transaction \in AnalyzeInputs : CallAnalyze(user_id, transaction)
    \/ \E request \in AssessRequests, db_profile \in DbProfiles :
          CallAssessTransaction(request, db_profile, {"written"}, MaxAssessed)

\* The assessment service with user policies: profiles are created,
\* policies are saved, and transactions are assessed.
NextGuarded ==
    \/ \E user_id \in StoreUsers :
          \/ \E learning_enabled \in BOOLEAN :
                CallCreateProfile(user_id, learning_enabled, {"written"})
          \/ \E policies_dict \in PolicyInputs :
                CallSaveMyPolicies(user_id, policies_dict)
    \/ \E request \in AssessRequests, db_profile \in DbProfiles :
          CallAssessTransaction(request, db_profile, {"written"}, MaxTxn)

-----------------------------------------------------------------------------
(***************************************************************************)
(* RiskEngine.compute_risk called on its own, over feature maps that lack  *)
(* some of the five keys and may carry a key that has no weight.           *)
(***************************************************************************)
FeatureKeys ==
    {"amount_anomaly", "behavior_anomaly", "retry_risk", "liveness_risk",
     "ml_behavior_anomaly", "device_risk"}

\* The feature values compute_risk is called with: 0.001 and 1.0.
FeatureValues == {1, ScoreScale}

FeatureMaps == UNION {[keys -> FeatureValues] : keys \in SUBSET FeatureKeys}

CallComputeRisk(features) ==
    \E r \in {ComputeRisk(features)} :
        /\ last' = [op |-> "compute_risk", features |-> features,
                    result |-> "ok", risk_score |-> r.risk_score,
                    reasons |-> r.reasons]
        /\ UNCHANGED <<policyVars, storeVars, raceVars, policies, user_profiles>>

NextRisk == \E features \in FeatureMaps : CallComputeRisk(features)

-----------------------------------------------------------------------------
(***************************************************************************)
(* FeatureExtractor.extract called on its own, on a transaction dictionary *)
(* drawn when the service starts.                                          *)
(***************************************************************************)

\* The dictionaries extract is called with: a small, a usual and a large
\* amount; a mean of 0 and the default one; no deviation, a small and the
\* default one; no, some and the most retries; a night, a morning and a day
\* hour; the liveness check passed and failed at confidence 0, 0.5 and 1.
ExtractInputs ==
    [amount              : {RInt(1), RInt(8), RInt(100)},
     user_avg_amount     : {RInt(0), RInt(DefaultAmountMean)},
     user_std_amount     : {RInt(0), RInt(1), RInt(DefaultAmountStd)},
     retry_count         : {0, 3, 10},
     location_changed    : BOOLEAN,
     hour_of_day         : {3, 7, 12},
     liveness_passed     : BOOLEAN,
     liveness_confidence : {0, 500, ScoreScale}]

CallExtract ==
    /\ last.op = "input"
    /\ last' = [op |-> "extract", transaction |-> last.transaction,
                result |-> "ok", features |-> Extract(last.transaction)]
    /\ UNCHANGED <<policyVars, storeVars, raceVars, policies, user_profiles>>

\* extract on the drawn dictionary, or the assessment service.
NextFeatures == CallExtract \/ NextAssess

-----------------------------------------------------------------------------
(***************************************************************************)
(* _calculate_amount_anomaly called on two amounts against one baseline.   *)
(***************************************************************************)

\* Amounts from below one rupee to far above the default mean, in thousands.
MonotoneAmounts ==
    {Rat(1, 5000), Rat(1, AmountUnit), RInt(1), RInt(3), RInt(DefaultAmountMean),
     RInt(7), RInt(9), RInt(11), RInt(13)}

\* A mean of 0 and the default mean.
MonotoneMeans == {RInt(0), RInt(DefaultAmountMean)}

\* Positive deviations: half a rupee, a thousand, and the default one.
MonotoneStds == {Rat(1, 2000), RInt(1), RInt(DefaultAmountStd)}

\* |amount - user_avg|
Deviation(amount, user_avg) == RAbs(RSub(amount, user_avg))

CallAmountAnomaly ==
    /\ last.op = "input"
    /\ last' = [op |-> "amount_anomaly", result |-> "ok",
                near |-> last.near, far |-> last.far,
                user_avg |-> last.user_avg, user_std |-> last.user_std,
                near_anomaly |-> AmountAnomaly(last.near, last.user_avg,
                                               last.user_std),
                far_anomaly  |-> AmountAnomaly(last.far, last.user_avg,
                                               last.user_std)]
    /\ UNCHANGED <<policyVars, storeVars, raceVars, policies, user_profiles>>

NextMonotone == CallAmountAnomaly

-----------------------------------------------------------------------------
(***************************************************************************)
(* compute_risk followed by decide, as steps 3 and 4 of assess_transaction *)
(* run them, on a DecisionPolicy whose thresholds may be updated.          *)
(***************************************************************************)

\* Feature maps with all five weighted features at 0, 0.5 or 1.
HeadlineFeatureMaps == [DOMAIN Weights -> {0, 500, ScoreScale}]

\* Threshold arguments: omitted, the defaults, and other valid values.
HeadlineThresholdInputs ==
    {None, Some(DefaultAllowThreshold), Some(50000), Some(DefaultBlockThreshold),
     Some(80000)}

CallComputeRiskAndDecide(features) ==
    \E risk \in {ComputeRisk(features)} :
        \E r \in {Decide(allow_threshold, block_threshold, risk.risk_score,
                         Some(risk.reasons))} :
            /\ last' = [op |-> "decide_risk", features |-> features,
                        result |-> "ok", risk_score |-> risk.risk_score,
                        decision |-> r.decision, reasons |-> r.reasons]
            /\ UNCHANGED <<policyVars, storeVars, raceVars, policies, user_profiles>>

NextHeadline ==
    \/ \E allow \in HeadlineThresholdInputs, block \in HeadlineThresholdInputs :
          CallUpdateThresholds(allow, block)
    \/ \E features \in HeadlineFeatureMaps : CallComputeRiskAndDecide(features)

-----------------------------------------------------------------------------
(***************************************************************************)
(* Onboarding: POST /register, /register-face, /upload-history and         *)
(* GET /onboarding-status over the user_profiles table.                    *)
(***************************************************************************)

\* The accounts (users.id) that can be registered.
Accounts == {1, 2}

\* The row create_user inserts: the flag columns at their default 0.
NewAccountRow ==
    [face_registered      |-> FALSE,
     has_uploaded_history |-> FALSE,
     onboarding_complete  |-> FALSE,
     history_count        |-> 0]

\* get_current_user: the token names a user that exists.
Authenticated(up, account) == up[account] # None

\* register: create_user returns None when the username is taken.
Register(up, account) ==
    IF up[account] # None
    THEN [user_profiles |-> up, result |-> "HTTPException", status_code |-> 400]
    ELSE [user_profiles |-> [up EXCEPT ![account] = Some(NewAccountRow)],
          result |-> "ok", status_code |-> 200]

\* register_face: the metadata is saved, then face_registered is set.
RegisterFace(up, account, saved) ==
    IF ~Authenticated(up, account)
    THEN [user_profiles |-> up, result |-> "HTTPException", status_code |-> 401]
    ELSE IF ~saved
    THEN [user_profiles |-> up, result |-> "HTTPException", status_code |-> 500]
    ELSE [user_profiles |->
              [up EXCEPT ![account] = Some([@[1] EXCEPT !.face_registered = TRUE])],
          result |-> "ok", status_code |-> 200]

\* bootstrap_from_history: the aggregates and has_uploaded_history = 1.
BootstrapFromHistory(row, valid) ==
    [row EXCEPT !.history_count = valid, !.has_uploaded_history = TRUE]

\* complete_onboarding
CompleteOnboarding(row) == [row EXCEPT !.onboarding_complete = TRUE]

\* upload_history: the file name must end in .csv, at least three rows must
\* be valid, the raw file is saved, the profile is bootstrapped, and
\* onboarding is marked complete.
UploadHistory(up, account, is_csv, valid, saved) ==
    IF ~Authenticated(up, account)
    THEN [user_profiles |-> up, result |-> "HTTPException", status_code |-> 401]
    ELSE IF ~is_csv \/ valid < 3
    THEN [user_profiles |-> up, result |-> "HTTPException", status_code |-> 400]
    ELSE IF ~saved
    THEN [user_profiles |-> up, result |-> "HTTPException", status_code |-> 500]
    ELSE [user_profiles |->
              [up EXCEPT ![account] =
                  Some(CompleteOnboarding(BootstrapFromHistory(@[1], valid)))],
          result |-> "ok", status_code |-> 200]

\* ProfileRepository.get_onboarding_status: the three flags and next_step.
GetOnboardingStatus(row) ==
    [face_registered      |-> row.face_registered,
     has_uploaded_history |-> row.has_uploaded_history,
     onboarding_complete  |-> row.onboarding_complete,
     next_step            |-> IF ~row.face_registered THEN "face_registration"
                              ELSE IF ~row.has_uploaded_history THEN "upload_history"
                              ELSE "complete"]

\* The numbers of valid rows in the uploaded files.
ValidRowInputs == {2, 3, 4}

OnboardingEffect(op, account, r, status) ==
    /\ user_profiles' = r.user_profiles
    /\ last' = [op |-> op, account |-> account, result |-> r.result,
                status_code |-> r.status_code, status |-> status]
    /\ UNCHANGED <<policyVars, storeVars, raceVars, policies>>

CallRegister(account) ==
    \E r \in {Register(user_profiles, account)} :
        OnboardingEffect("register", account, r, None)

CallRegisterFace(account, saved) ==
    \E r \in {RegisterFace(user_profiles, account, saved)} :
        OnboardingEffect("register_face", account, r, None)

CallUploadHistory(account, is_csv, valid, saved) ==
    \E r \in {UploadHistory(user_profiles, account, is_csv, valid, saved)} :
        OnboardingEffect("upload_history", account, r, None)

CallGetOnboardingStatus(account) ==
    IF Authenticated(user_profiles, account)
    THEN OnboardingEffect("get_onboarding_status", account,
                          [user_profiles |-> user_profiles, result |-> "ok",
                           status_code |-> 200],
                          Some(GetOnboardingStatus(user_profiles[account][1])))
    ELSE OnboardingEffect("get_onboarding_status", account,
                          [user_profiles |-> user_profiles,
                           result |-> "HTTPException", status_code |-> 401],
                          None)

NextOnboarding ==
    \E account \in Accounts :
        \/ CallRegister(account)
        \/ \E saved \in BOOLEAN : CallRegisterFace(account, saved)
        \/ \E is_csv \in BOOLEAN, valid \in ValidRowInputs, saved \in BOOLEAN :
              CallUploadHistory(account, is_csv, valid, saved)
        \/ CallGetOnboardingStatus(account)

-----------------------------------------------------------------------------
Init ==
    /\ allow_threshold = DefaultAllowThreshold
    /\ block_threshold = DefaultBlockThreshold
    /\ cache = [u \in Users |-> None]
    /\ disk = [path \in Paths |-> None]
    /\ now = 0
    /\ failures = 0
    /\ folded = [u \in Users |-> NothingFolded]
    /\ last = [op |-> "init"]
    /\ heap = <<>>
    /\ ref = [u \in Users |-> None]
    /\ threads = [th \in Threads |-> Idle]
    /\ policies = [u \in Users |-> None]
    /\ user_profiles = [a \in Accounts |-> None]

SpecStore == Init /\ [][NextStore]_vars

SpecFaults == Init /\ [][NextFaults]_vars

SpecDurable == Init /\ [][NextDurable]_vars

SpecLocations == Init /\ [][NextLocations]_vars

SpecAssess == Init /\ [][NextAssess]_vars

SpecGuarded == Init /\ [][NextGuarded]_vars

SpecRisk == Init /\ [][NextRisk]_vars

\* The service starts with a transaction dictionary at hand.
InitFeatures ==
    \E transaction \in ExtractInputs :
        /\ allow_threshold = DefaultAllowThreshold
        /\ block_threshold = DefaultBlockThreshold
        /\ cache = [u \in Users |-> None]
        /\ disk = [path \in Paths |-> None]
        /\ now = 0
        /\ failures = 0
        /\ folded = [u \in Users |-> NothingFolded]
        /\ last = [op |-> "input", transaction |-> transaction]
        /\ heap = <<>>
        /\ ref = [u \in Users |-> None]
        /\ threads = [th \in Threads |-> Idle]
        /\ policies = [u \in Users |-> None]
        /\ user_profiles = [a \in Accounts |-> None]

SpecFeatures == InitFeatures /\ [][NextFeatures]_vars

\* Two amounts and a baseline are at hand.
InitMonotone ==
    \E near \in MonotoneAmounts, far \in MonotoneAmounts,
       user_avg \in MonotoneMeans, user_std \in MonotoneStds :
        /\ allow_threshold = DefaultAllowThreshold
        /\ block_threshold = DefaultBlockThreshold
        /\ cache = [u \in Users |-> None]
        /\ disk = [path \in Paths |-> None]
        /\ now = 0
        /\ failures = 0
        /\ folded = [u \in Users |-> NothingFolded]
        /\ last = [op |-> "input", near |-> near, far |-> far,
                   user_avg |-> user_avg, user_std |-> user_std]
        /\ heap = <<>>
        /\ ref = [u \in Users |-> None]
        /\ threads = [th \in Threads |-> Idle]
        /\ policies = [u \in Users |-> None]
        /\ user_profiles = [a \in Accounts |-> None]

SpecMonotone == InitMonotone /\ [][NextMonotone]_vars

SpecSummary == Init /\ [][NextSummary]_vars

SpecHeadline == Init /\ [][NextHeadline]_vars

SpecOnboarding == Init /\ [][NextOnboarding]_vars

SpecIsolation == Init /\ [][NextIsolation]_vars

SpecPolicy == Init /\ [][NextPolicy]_vars

\* The store as the concurrent calls find it: a consenting profile just
\* created, or one that has learned one amount; in the cache of this process,
\* or only in its file (the process has been started since).
RaceSetups ==
    LET nothing == [u \in Users |-> None]
        created == CreateProfile(nothing, [path \in Paths |-> None],
                                 RaceUser, TRUE, 0, "written")
        recorded == RecordTransaction(created.cache, created.disk,
                                      RaceUser, 4, 0, 0, "written")
    IN  {[cache |-> created.cache, disk |-> created.disk],
         [cache |-> recorded.cache, disk |-> recorded.disk]}

InitRace ==
    \E setup \in RaceSetups, cached \in BOOLEAN :
        /\ allow_threshold = DefaultAllowThreshold
        /\ block_threshold = DefaultBlockThreshold
        /\ disk = setup.disk
        /\ heap = IF cached THEN <<setup.cache[RaceUser][1]>> ELSE <<>>
        /\ ref = [u \in Users |-> IF cached /\ u = RaceUser THEN Some(1) ELSE None]
        /\ cache = [u \in Users |-> IF cached THEN setup.cache[u] ELSE None]
        /\ now = 0
        /\ failures = 0
        /\ folded = [u \in Users |-> NothingFolded]
        /\ last = [op |-> "setup", user_id |-> RaceUser,
                   result |-> setup.cache[RaceUser][1]]
        /\ threads = [th \in Threads |-> Idle]
        /\ policies = [u \in Users |-> None]
        /\ user_profiles = [a \in Accounts |-> None]

SpecRace == InitRace /\ [][NextRace]_vars

-----------------------------------------------------------------------------
(***************************************************************************)
(* C1: a rejected update_thresholds call (one that raises ValueError)      *)
(* leaves allow_threshold and block_threshold as they were before it.      *)
(***************************************************************************)
C1_RejectedUpdateKeepsThresholds ==
    [][(last'.op = "update_thresholds" /\ last'.result = "ValueError")
         => (allow_threshold' = allow_threshold
             /\ block_threshold' = block_threshold)]_vars

(***************************************************************************)
(* C2: in every state reachable by update_thresholds calls,                *)
(* 0 <= allow_threshold < block_threshold <= 1.                            *)
(***************************************************************************)
C2_ThresholdsOrdered ==
    /\ 0 <= allow_threshold
    /\ allow_threshold < block_threshold
    /\ block_threshold <= RiskScale

(***************************************************************************)
(* C3: decide returns ALLOW iff risk < allow_threshold, DELAY iff          *)
(* allow_threshold <= risk < block_threshold, BLOCK iff                    *)
(* risk >= block_threshold; with the default thresholds 0.3 gives DELAY    *)
(* and 0.6 gives BLOCK; risk_score and reasons come back as passed.        *)
(***************************************************************************)
C3_DecideBands ==
    last.op = "decide" =>
        LET risk == last.risk_score
            d == last.result.decision
        IN  /\ d \in {"ALLOW", "DELAY", "BLOCK"}
            /\ (d = "ALLOW") <=> (risk < allow_threshold)
            /\ (d = "DELAY") <=> (allow_threshold <= risk /\ risk < block_threshold)
            /\ (d = "BLOCK") <=> (risk >= block_threshold)
            /\ (allow_threshold = DefaultAllowThreshold
                /\ block_threshold = DefaultBlockThreshold)
               => /\ risk = DefaultAllowThreshold => d = "DELAY"
                  /\ risk = DefaultBlockThreshold => d = "BLOCK"
            /\ last.result.risk_score = risk
            /\ last.reasons # None => last.result.reasons = last.reasons[1]


-----------------------------------------------------------------------------
\* The step just taken was a call of op for user_id.
Called(op, user_id) == last'.op = op /\ last'.user_id = user_id

RecordingOps == {"record_transaction", "update_with_transaction"}
LocationOps == {"add_trusted_location", "remove_trusted_location"}

Consenting(user_id) ==
    Stored(user_id) # None /\ Stored(user_id)[1].learning_enabled

Refusing(user_id) ==
    Stored(user_id) # None /\ ~Stored(user_id)[1].learning_enabled

(***************************************************************************)
(* C4: consent gating.  record_transaction and update_with_transaction for *)
(* a user whose profile has learning_enabled = false leave every field of  *)
(* the profile as it was, updated_at included, whatever amount and hour.   *)
(***************************************************************************)
C4_ConsentGating ==
    [][\A user_id \in Users :
          (Refusing(user_id) /\ \E op \in RecordingOps : Called(op, user_id))
          => /\ Stored(user_id)' = Stored(user_id)
             /\ cache' = cache
             /\ disk' = disk]_vars

\* A transaction was recorded for a refusing profile at an instant later than
\* the profile's updated_at.
C4_Witness ==
    \E user_id \in Users :
        /\ last.op = "record_transaction"
        /\ last.user_id = user_id
        /\ Refusing(user_id)
        /\ Stored(user_id)[1].updated_at < now

(***************************************************************************)
(* C5: eligibility gating.  For a consenting profile with amount_std > 0   *)
(* and an hour that names a bucket, record_transaction with                *)
(* |amount - amount_mean| / amount_std >= 1.5 leaves amount_mean,          *)
(* amount_std and amount_count as they were and adds exactly 1 to          *)
(* hour_histogram[hour] and to transaction_count; with z < 1.5 it also     *)
(* adds exactly 1 to amount_count.                                         *)
(***************************************************************************)
\* z >= 1.5, stated on the squares: 4 (amount - mean)^2 >= 9 std^2.
ZAtLeastOneAndAHalf(p, amount) ==
    LET diff == RSub(RInt(amount), p.amount_mean) IN
    RLeq(RMul(RInt(9), p.amount_std_sq), RMul(RInt(4), RSquare(diff)))

C6_StreamingMean ==
    \A user_id \in Users :
        Stored(user_id) # None =>
            LET p == Stored(user_id)[1]
                f == folded[user_id]
            IN  /\ p.amount_count = f.n
                /\ f.n >= 1 => p.amount_mean = Rat(f.sum, f.n)

\* Two amounts folded, not equal to each other, and a third transaction that
\* was counted without being folded.
C6_Witness ==
    \E user_id \in Users :
        /\ Consenting(user_id)
        /\ folded[user_id].n = 2
        /\ folded[user_id].sum = 10
        /\ folded[user_id].sumsq = 52
        /\ Stored(user_id)[1].transaction_count = 3

(***************************************************************************)
(* C7: streaming deviation.  After n >= 2 amounts have been folded in,     *)
(* amount_std squared is the variance of exactly those n amounts.          *)
(* As claimed, the population variance (divisor n):                        *)
(***************************************************************************)
C7_PopulationVariance ==
    \A user_id \in Users :
        (Stored(user_id) # None /\ folded[user_id].n >= 2) =>
            LET f == folded[user_id] IN
            Stored(user_id)[1].amount_std_sq =
                Rat(f.n * f.sumsq - f.sum * f.sum, f.n * f.n)

(***************************************************************************)
(* C7, amended: after n >= 2 amounts have been folded in, amount_std       *)
(* squared is the sample variance (divisor n - 1) of exactly those n       *)
(* amounts.                                                                *)
(***************************************************************************)
C7_SampleVariance ==
    \A user_id \in Users :
        (Stored(user_id) # None /\ folded[user_id].n >= 2) =>
            LET f == folded[user_id] IN
            Stored(user_id)[1].amount_std_sq =
                Rat(f.n * f.sumsq - f.sum * f.sum, f.n * (f.n - 1))

\* Three amounts folded, not all equal.
C7_Witness ==
    \E user_id \in Users :
        /\ Stored(user_id) # None
        /\ folded[user_id].n = 3
        /\ RLess(RInt(0), Stored(user_id)[1].amount_std_sq)

(***************************************************************************)
(* C8: every stored profile has amount_count <= transaction_count.         *)
(***************************************************************************)
C8_AmountCountAtMostTransactionCount ==
    \A user_id \in Users :
        Stored(user_id) # None =>
            Stored(user_id)[1].amount_count <= Stored(user_id)[1].transaction_count

(***************************************************************************)
(* C9: a profile with learning_enabled = false is changed only by consent  *)
(* toggling or reset.  As claimed: transaction recording,                  *)
(* add_trusted_location and remove_trusted_location change none of its     *)
(* fields while the flag is false.                                         *)
(***************************************************************************)
C9_RefusingProfileFrozen ==
    [][\A user_id \in Users :
          (Refusing(user_id)
           /\ \E op \in RecordingOps \cup LocationOps : Called(op, user_id))
          => Stored(user_id)' = Stored(user_id)]_vars

(***************************************************************************)
(* C9, amended: while learning_enabled = false, transaction recording      *)
(* changes no field of the profile; add_trusted_location and               *)
(* remove_trusted_location are not gated by the flag and change            *)
(* trusted_locations and updated_at, and no other field.                   *)
(***************************************************************************)
C9_RefusingProfileLearnsNothing ==
    [][\A user_id \in Users :
          Refusing(user_id) =>
              /\ (\E op \in RecordingOps : Called(op, user_id))
                 => Stored(user_id)' = Stored(user_id)
              /\ (\E op \in LocationOps : Called(op, user_id))
                 => /\ Stored(user_id)' # None
                    /\ [Stored(user_id)'[1] EXCEPT
                           !.trusted_locations = Stored(user_id)[1].trusted_locations,
                           !.updated_at = Stored(user_id)[1].updated_at]
                       = Stored(user_id)[1]]_vars

\* A trusted location was added to a refusing profile, at a later instant than
\* the profile was created.
C9_Witness ==
    \E user_id \in Users :
        /\ last.op = "add_trusted_location"
        /\ last.user_id = user_id
        /\ last.result = "True"
        /\ Refusing(user_id)
        /\ Len(Stored(user_id)[1].trusted_locations) = 1
        /\ Stored(user_id)[1].trusted_locations[1].added_at
               > Stored(user_id)[1].created_at

(***************************************************************************)
(* C10: storage-failure atomicity.  When update_with_transaction fails     *)
(* (the write raises, or the histogram update raises), the profile that    *)
(* get(user_id) returns afterwards is the profile from before the call.    *)
(***************************************************************************)
C10_FailedUpdateLeavesProfile ==
    [][\A user_id \in Users :
          (/\ Called("update_with_transaction", user_id)
           /\ last'.result \in {"OSError", "IndexError"})
          => Stored(user_id)' = Stored(user_id)]_vars

(***************************************************************************)
(* C11: no lost updates under concurrency.  When two record_transaction    *)
(* calls for the same consenting user have both returned, however their    *)
(* steps interleaved, transaction_count and the histogram total have each  *)
(* grown by exactly 2, and amount_count by the number of the two calls     *)
(* that were baseline-eligible.                                            *)
(***************************************************************************)
C11_NoLostUpdates ==
    (\A th \in Threads : threads[th].pc = "returned") =>
        LET before == last.result
            after == Stored(RaceUser)[1]
            eligible == {th \in Threads : threads[th].is_baseline_eligible}
        IN  /\ after.transaction_count = before.transaction_count + 2
            /\ HistogramTotal(after) = HistogramTotal(before) + 2
            /\ after.amount_count = before.amount_count + Cardinality(eligible)


\* What get_profile_summary(user_id) returns in the current state.
Summary(user_id) == GetProfileSummary(cache, disk, user_id).summary

(***************************************************************************)
(* C14: reset.  After reset(user_id) on an existing profile, the summary   *)
(* reports mean 5000, std 2000, transaction_count 0, no preferred hours    *)
(* and no trusted locations, with user_id and learning_enabled as they     *)
(* were before; reset on an absent user returns False and creates no       *)
(* profile.                                                                *)
(***************************************************************************)
C14_Reset ==
    [][last'.op = "reset_profile" =>
          \A user_id \in {u \in Users : u = last'.user_id} :
          \E before \in {Summary(user_id)}, after \in {Summary(user_id)'} :
              IF before # None
              THEN /\ last'.result = "True"
                   /\ after # None
                   /\ after[1].amount_range =
                          [mean   |-> DefaultAmountMean * AmountUnit * 100,
                           std_sq |-> RSquare(RInt(DefaultAmountStd))]
                   /\ after[1].transaction_count = 0
                   /\ after[1].preferred_hours = <<>>
                   /\ after[1].trusted_locations = <<>>
                   /\ after[1].user_id = before[1].user_id
                   /\ after[1].learning_enabled = before[1].learning_enabled
              ELSE /\ last'.result = "False"
                   /\ after = None
                   /\ cache' = cache
                   /\ disk' = disk]_vars

\* A consenting profile that had learned and had a trusted location has been
\* reset.
C14_Witness ==
    \E user_id \in Users :
        /\ last.op = "reset_profile"
        /\ last.user_id = user_id
        /\ last.result = "True"
        /\ Consenting(user_id)
        /\ Stored(user_id)[1].created_at > 0
        /\ Summary(user_id)[1].transaction_count = 0


(***************************************************************************)
(* C15: profile lifecycle.  A profile for a user id comes into existence   *)
(* only through create_profile or set_learning_enabled for that id, and    *)
(* ceases to exist only through delete_profile; after delete_profile(u),   *)
(* get(u) is absent, and no later record_transaction,                      *)
(* update_with_transaction, add/remove_trusted_location or reset brings    *)
(* it back.                                                                *)
(***************************************************************************)
C15_Lifecycle ==
    [][\A user_id \in Users :
          \E before \in {Stored(user_id)}, after \in {Stored(user_id)'} :
              /\ (before = None /\ after # None)
                     => /\ last'.op \in {"create_profile", "set_learning_enabled"}
                        /\ last'.user_id = user_id
              /\ (before # None /\ after = None)
                     => /\ last'.op = "delete_profile"
                        /\ last'.user_id = user_id
              /\ Called("delete_profile", user_id) => after = None]_vars

\* An existing profile has been deleted (its file was there), and get now
\* returns None.
C15_Witness ==
    \E user_id \in Users :
        /\ last.op = "delete_profile"
        /\ last.user_id = user_id
        /\ last.result = "True"
        /\ Stored(user_id) = None
        /\ now > 0


\* user_id has no profile: nothing in the cache and no file.
Absent(user_id) ==
    cache[user_id] = None /\ disk[ProfilePath(user_id)] = None

(***************************************************************************)
(* C16: absent-profile paths are silent no-ops.  For a user id with no     *)
(* profile, get and summarize return absent, add_trusted_location,         *)
(* remove_trusted_location and reset return False, update_with_transaction *)
(* and record_transaction return normally; none raises, none changes the   *)
(* store, none creates a profile.                                          *)
(***************************************************************************)
C16_AbsentProfileNoOps ==
    [][\A user_id \in {u \in Users : u = last'.user_id} :
          Absent(user_id) =>
              /\ last'.op = "get_profile"
                     => last'.result = "ok" /\ last'.profile = None
              /\ last'.op = "get_profile_summary"
                     => last'.result = "ok" /\ last'.summary = None
              /\ last'.op \in LocationOps \cup {"reset_profile"}
                     => last'.result = "False"
              /\ last'.op \in RecordingOps => last'.result = "None"
              /\ last'.op \in {"get_profile", "get_profile_summary", "reset_profile"}
                                 \cup LocationOps \cup RecordingOps
                     => /\ Absent(user_id)'
                        /\ cache' = cache
                        /\ disk' = disk]_vars

\* record_transaction has returned for a user who has no profile, after the
\* clock has moved on.
C16_Witness ==
    \E user_id \in Users :
        /\ last.op = "record_transaction"
        /\ last.user_id = user_id
        /\ last.result = "None"
        /\ Absent(user_id)
        /\ now > 0


\* No two entries of the list carry one name.
NoNameTwice(profile) ==
    \A i, j \in 1 .. Len(profile.trusted_locations) :
        profile.trusted_locations[i].name = profile.trusted_locations[j].name
            => i = j

(***************************************************************************)
(* C17: the trusted-location operations are idempotent set operations      *)
(* keyed by name.  add_trusted_location(u, name) applied a second time     *)
(* leaves trusted_locations as the first left it, and so does              *)
(* remove_trusted_location; after a remove no entry with that name         *)
(* remains; and no reachable profile has two entries with one name.        *)
(***************************************************************************)
C17_TrustedLocationsIdempotent ==
    [][\A user_id \in {u \in Users : u = last'.user_id} :
          \E before \in {Stored(user_id)}, after \in {Stored(user_id)'} :
              /\ after # None => NoNameTwice(after[1])
              /\ (last'.op \in LocationOps /\ last'.repeated)
                     => /\ last'.result = "True"
                        /\ after # None
                        /\ after[1].trusted_locations = before[1].trusted_locations
              /\ (last'.op = "remove_trusted_location" /\ last'.result = "True")
                     => \A i \in 1 .. Len(after[1].trusted_locations) :
                            after[1].trusted_locations[i].name # last'.location_name]_vars

\* A name has been added a second time to a profile that has another
\* trusted location as well.
C17_Witness ==
    \E user_id \in Users :
        /\ last.op = "add_trusted_location"
        /\ last.user_id = user_id
        /\ last.repeated
        /\ Stored(user_id) # None
        /\ Len(Stored(user_id)[1].trusted_locations) = 2
        /\ now > Stored(user_id)[1].updated_at


(***************************************************************************)
(* C18: set_learning_enabled(user_id, enabled) returns True; on an         *)
(* existing profile it changes learning_enabled to enabled and updated_at,  *)
(* and leaves amount_mean, amount_std, amount_count, hour_histogram,       *)
(* transaction_count, trusted_locations and created_at as they were; on    *)
(* an absent user it leaves a profile with the default statistics and      *)
(* learning_enabled = enabled.                                             *)
(***************************************************************************)
C18_SetLearningEnabledFrame ==
    [][last'.op = "set_learning_enabled" =>
          \A user_id \in {u \in Users : u = last'.user_id} :
          \E before \in {Stored(user_id)}, after \in {Stored(user_id)'} :
              /\ last'.result = "True"
              /\ after # None
              /\ after[1].learning_enabled = last'.enabled
              /\ IF before # None
                 THEN after[1] = [before[1] EXCEPT
                                     !.learning_enabled = last'.enabled,
                                     !.updated_at = after[1].updated_at]
                 ELSE after[1] = NewProfile(user_id, last'.enabled,
                                            after[1].created_at)]_vars

\* Consent has just been withdrawn from a profile that has learned an
\* amount and has a trusted location, at a later instant than its creation.
C18_Witness ==
    \E user_id \in Users :
        /\ last.op = "set_learning_enabled"
        /\ last.user_id = user_id
        /\ ~last.enabled
        /\ Stored(user_id) # None
        /\ Stored(user_id)[1].amount_count > 0
        /\ Len(Stored(user_id)[1].trusted_locations) > 0
        /\ Stored(user_id)[1].updated_at > Stored(user_id)[1].created_at

\* The operations that write a profile.
WritingOps ==
    RecordingOps \cup LocationOps
        \cup {"create_profile", "set_learning_enabled", "reset_profile"}

\* What a manager holds before it has read anything.
EmptyCache == [u \in Users |-> None]

(***************************************************************************)
(* C19: durability round trip.  After any step in which a mutating         *)
(* operation has written the user's file and has not raised, get_profile   *)
(* of a new UserProfileManager over the same storage_dir returns a         *)
(* profile whose every field equals the one the writing manager holds.     *)
(***************************************************************************)
C19_DurableRoundTrip ==
    [][(last'.op \in WritingOps /\ last'.result \notin {"OSError", "JSONDecodeError"})
          => \A user_id \in {u \in Users : u = last'.user_id} :
                 disk'[ProfilePath(user_id)] # disk[ProfilePath(user_id)]
                     => \E fresh \in {GetProfile(EmptyCache, disk', user_id)} :
                            /\ fresh.result = "ok"
                            /\ fresh.profile # None
                            /\ fresh.profile = cache'[user_id]]_vars

\* A manager that has folded nothing itself has read from the file a
\* profile with a learned amount and a trusted location: the profile was
\* written before a restart.
C19_Witness ==
    \E user_id \in Users :
        /\ last.op = "get_profile"
        /\ last.user_id = user_id
        /\ last.profile # None
        /\ last.profile = cache[user_id]
        /\ folded[user_id] = NothingFolded
        /\ last.profile[1].amount_count > 0
        /\ Len(last.profile[1].trusted_locations) > 0
        /\ last.profile[1].updated_at > last.profile[1].created_at


(***************************************************************************)
(* C12: a request that violates the user's saved policy is short-circuited *)
(* before risk scoring: assess_transaction makes no call into the core     *)
(* (no extract, analyze, compute_risk, decide, record_transaction) and the *)
(* user's learned profile is as it was.                                    *)
(***************************************************************************)
C12_PolicyViolationShortCircuits ==
    [][last'.op = "assess_transaction" =>
          \A user_id \in {u \in Users : Some(u) = last'.user_id} :
              PolicyViolated(policies[user_id], last'.request)
                  => /\ last'.trace = <<>>
                     /\ Stored(user_id)' = Stored(user_id)]_vars

(***************************************************************************)
(* C13: pipeline ordering.  For a request with a user_id, the assessment   *)
(* returned is the one analyze, compute_risk and decide give on the        *)
(* profile as it was before the request; the calls are made in the order   *)
(* extract, analyze, compute_risk, decide, record_transaction; and the     *)
(* store afterwards is the store before with record_transaction applied    *)
(* once.                                                                   *)
(***************************************************************************)
C13_ScoredBeforeRecorded ==
    [][last'.op = "assess_transaction" =>
          \A user_id \in {u \in Users : Some(u) = last'.user_id} :
          \E s \in {Scored(cache, disk, allow_threshold, block_threshold,
                           last'.request, last'.db_profile)} :
              s.result = "ok" =>
                  /\ last'.trace = <<"extract", "analyze", "compute_risk",
                                     "decide", "record_transaction">>
                  /\ last'.result = "ok" => last'.response = Some(s.response)
                  /\ \E r \in {RecordTransaction(s.cache, disk, user_id,
                                                 last'.request.amount,
                                                 last'.request.hour_of_day,
                                                 now', "written")} :
                         last'.result = "ok" => /\ cache' = r.cache
                                                /\ disk' = r.disk]_vars

\* An assessment has been returned whose behaviour score is above 0 and
\* whose transaction has been learned: the profile had five transactions or
\* more before it and has one more now.
C13_Witness ==
    /\ last.op = "assess_transaction"
    /\ last.user_id # None
    /\ last.result = "ok"
    /\ last.response[1].features["ml_behavior_anomaly"] > 0
    /\ \E user_id \in Users :
          /\ Some(user_id) = last.user_id
          /\ Stored(user_id) # None
          /\ Stored(user_id)[1].learning_enabled
          /\ Stored(user_id)[1].transaction_count = MaxAssessed
          /\ Stored(user_id)[1].updated_at = now

(***************************************************************************)
(* C20: analyze returns, with behavior_anomaly_score 0 and a status, when  *)
(* the user has no profile, when the profile has learning_enabled false,   *)
(* and when transaction_count is below 5 (the status then names the        *)
(* count), whatever the transaction's amount, hour and location.           *)
(***************************************************************************)
C20_NeutralAnalysis ==
    [][last'.op = "analyze" =>
          \A user_id \in {u \in Users : u = last'.user_id} :
          \E before \in {GetProfile(cache, disk, user_id)} :
              before.result = "ok" =>
                  IF before.profile = None
                  THEN /\ last'.result = "ok"
                       /\ last'.analysis.behavior_anomaly_score = 0
                       /\ last'.analysis.status = Some("learning_disabled")
                  ELSE IF ~before.profile[1].learning_enabled
                  THEN /\ last'.result = "ok"
                       /\ last'.analysis.behavior_anomaly_score = 0
                       /\ last'.analysis.status = Some("learning_disabled")
                  ELSE IF before.profile[1].transaction_count < 5
                  THEN /\ last'.result = "ok"
                       /\ last'.analysis.behavior_anomaly_score = 0
                       /\ last'.analysis.status = Some("insufficient_data")
                       /\ last'.analysis.count =
                              Some(before.profile[1].transaction_count)
                  ELSE last'.analysis.status = None]_vars

\* analyze has returned the neutral result for a profile whose consent was
\* withdrawn after it had learned five transactions, for a transaction whose
\* hour is outside the histogram.
C20_Witness ==
    \E user_id \in Users :
        /\ last.op = "analyze"
        /\ last.user_id = user_id
        /\ last.result = "ok"
        /\ last.transaction.hour_of_day = HoursPerDay
        /\ last.analysis.behavior_anomaly_score = 0
        /\ Stored(user_id) # None
        /\ ~Stored(user_id)[1].learning_enabled
        /\ Stored(user_id)[1].transaction_count >= 5


\* The sum, over the weighted keys a feature map has, of value times weight,
\* with the weights as the claim gives them; in units of 1 / RiskScale.
WeightedSum(features) ==
    LET part(key, weight) == IF key \in DOMAIN features
                             THEN features[key] * weight ELSE 0
    IN  part("amount_anomaly", 20) + part("behavior_anomaly", 15)
          + part("retry_risk", 20) + part("liveness_risk", 15)
          + part("ml_behavior_anomaly", 30)

(***************************************************************************)
(* C21, as stated: compute_risk returns a score in [0, 1] that equals the  *)
(* sum over the recognized keys present of value times weight.             *)
(***************************************************************************)
C21_ScoreIsWeightedSum ==
    last.op = "compute_risk" =>
        /\ last.result = "ok"
        /\ InUnitRange(last.risk_score)
        /\ last.risk_score = WeightedSum(last.features)

(***************************************************************************)
(* C21, amended: compute_risk raises nothing and returns a score in        *)
(* [0, 1] that is the sum over the recognized keys present of value times  *)
(* weight rounded to three decimals (a whole number of thousandths within  *)
(* half a thousandth of the sum); keys without a weight contribute         *)
(* nothing, and the five weights sum to exactly 1.                         *)
(***************************************************************************)
C21_ScoreIsRoundedWeightedSum ==
    last.op = "compute_risk" =>
        /\ last.result = "ok"
        /\ InUnitRange(last.risk_score)
        /\ last.risk_score % 100 = 0
        /\ 2 * Abs(last.risk_score - WeightedSum(last.features)) <= 100
        /\ Weights["amount_anomaly"] + Weights["behavior_anomaly"]
             + Weights["retry_risk"] + Weights["liveness_risk"]
             + Weights["ml_behavior_anomaly"] = 100

\* compute_risk has returned for a map that lacks a weighted key, carries a
\* key without a weight, and whose sum is not a whole number of thousandths.
C21_Witness ==
    /\ last.op = "compute_risk"
    /\ "device_risk" \in DOMAIN last.features
    /\ "retry_risk" \notin DOMAIN last.features
    /\ WeightedSum(last.features) % 100 # 0
    /\ last.risk_score > 0


\* A score in thousandths lies in [0, 1].
InScoreRange(x) == 0 <= x /\ x <= ScoreScale

(***************************************************************************)
(* C22: every feature extract returns (amount_anomaly, behavior_anomaly,   *)
(* retry_risk, liveness_risk) lies in [0, 1], for amount > 0, mean and     *)
(* deviation >= 0, retry_count >= 0, an hour in 0..23 and a confidence in  *)
(* [0, 1]; and the score analyze returns lies in [0, 1] in every reachable *)
(* profile state, on its own and as the feature of an assessment.          *)
(***************************************************************************)
C22_FeaturesInUnitRange ==
    /\ last.op = "extract" =>
          /\ last.result = "ok"
          /\ InScoreRange(last.features.amount_anomaly)
          /\ InScoreRange(last.features.behavior_anomaly)
          /\ InScoreRange(last.features.retry_risk)
          /\ InScoreRange(last.features.liveness_risk)
    /\ (last.op = "analyze" /\ last.result = "ok") =>
          InScoreRange(last.analysis.behavior_anomaly_score)
    /\ (last.op = "assess_transaction" /\ last.result = "ok") =>
          \A key \in DOMAIN last.response[1].features :
              InScoreRange(last.response[1].features[key])

\* extract has returned an amount anomaly and a retry risk at the cap of 1
\* for an amount far above the mean after ten retries.
C22_Witness ==
    /\ last.op = "extract"
    /\ last.transaction.retry_count = 10
    /\ last.transaction.user_std_amount = RInt(1)
    /\ last.features.amount_anomaly = ScoreScale
    /\ last.features.retry_risk = ScoreScale
    /\ last.features.liveness_risk = ScoreScale


(***************************************************************************)
(* C23: for a fixed user_avg and a fixed user_std > 0, amount_anomaly is   *)
(* non-decreasing in |amount - user_avg|: of two amounts, the one no       *)
(* nearer to the mean has an anomaly no lower.                             *)
(***************************************************************************)
C23_AmountAnomalyMonotone ==
    (/\ last.op = "amount_anomaly"
     /\ RLeq(Deviation(last.near, last.user_avg),
             Deviation(last.far, last.user_avg)))
    => last.near_anomaly <= last.far_anomaly


\* Hour g comes before hour h in the order of the summary: a larger count,
\* or the same count and a lower hour.
Precedes(hour_histogram, g, h) ==
    \/ hour_histogram[g] > hour_histogram[h]
    \/ hour_histogram[g] = hour_histogram[h] /\ g < h

(***************************************************************************)
(* C24: the preferred hours of get_profile_summary are at most three hour  *)
(* buckets, all with a count above 0, in descending order of count with    *)
(* ties in ascending order of hour; and every returned hour comes before   *)
(* every hour that is not returned, in that same order.                    *)
(***************************************************************************)
C24_PreferredHoursTopThree ==
    (/\ last.op = "get_profile_summary"
     /\ last.result = "ok"
     /\ last.summary # None)
    => \A user_id \in {u \in Users : u = last.user_id} :
       \E hour_histogram \in {Stored(user_id)[1].hour_histogram},
          preferred_hours \in {last.summary[1].preferred_hours} :
          /\ Len(preferred_hours) <= 3
          /\ \A i \in DOMAIN preferred_hours :
                /\ preferred_hours[i] \in 0 .. HoursPerDay - 1
                /\ hour_histogram[preferred_hours[i]] > 0
          /\ \A i, j \in DOMAIN preferred_hours :
                i < j => Precedes(hour_histogram, preferred_hours[i],
                                  preferred_hours[j])
          /\ \A i \in DOMAIN preferred_hours :
                \A g \in 0 .. HoursPerDay - 1 :
                   (\A j \in DOMAIN preferred_hours : preferred_hours[j] # g)
                   => Precedes(hour_histogram, preferred_hours[i], g)

\* A summary has returned three hours, two of them with the same count,
\* and has left out a later hour that has that count too.
C24_Witness ==
    /\ last.op = "get_profile_summary"
    /\ last.result = "ok"
    /\ last.summary # None
    /\ last.summary[1].preferred_hours = <<12, 1, 7>>
    /\ Stored(last.user_id)[1].hour_histogram[1] = 1
    /\ Stored(last.user_id)[1].hour_histogram[7] = 1
    /\ Stored(last.user_id)[1].hour_histogram[23] = 1

(***************************************************************************)
(* C25: the headline reason and the decision agree.  For every score that  *)
(* compute_risk produces and decide classifies, under any thresholds the   *)
(* DecisionPolicy holds, the first reason is the 'appears normal' message  *)
(* exactly when the decision is ALLOW, the 'flagged for review' message    *)
(* exactly when it is DELAY, and the 'High-risk' message exactly when it   *)
(* is BLOCK.                                                               *)
(***************************************************************************)
C25_HeadlineMatchesDecision ==
    last.op = "decide_risk" =>
        /\ last.reasons[1] = "Transaction appears normal"
              <=> last.decision = "ALLOW"
        /\ last.reasons[1] = "Transaction flagged for review"
              <=> last.decision = "DELAY"
        /\ last.reasons[1] = "High-risk transaction detected"
              <=> last.decision = "BLOCK"


(***************************************************************************)
(* C26: on a consenting profile that has absorbed no baseline sample       *)
(* (amount_count = 0, the creation defaults in place), record_transaction  *)
(* treats every amount as baseline-eligible: after the call amount_count   *)
(* is 1, amount_mean is the amount and amount_std is 0.                    *)
(***************************************************************************)
C26_FirstSampleAlwaysEligible ==
    [][\A user_id \in Users, amount \in AmountInputs,
          hour \in HourInputs \cap (0 .. HoursPerDay - 1) :
          (/\ Consenting(user_id)
           /\ Stored(user_id)[1].amount_count = 0
           /\ CallRecordTransaction(user_id, amount, hour, {"written"}))
          => \E q \in {Stored(user_id)'[1]} :
                 /\ last'.update_baseline
                 /\ q.amount_count = 1
                 /\ q.amount_mean = RInt(amount)
                 /\ q.amount_std_sq = RInt(0)]_vars


(***************************************************************************)
(* C27: the onboarding state machine.  In every state reached through      *)
(* register, register-face and upload-history, onboarding_complete implies *)
(* face_registered and has_uploaded_history; and get_onboarding_status     *)
(* reports next_step = 'complete' exactly when onboarding_complete is      *)
(* true.                                                                   *)
(***************************************************************************)
C27_OnboardingCompleteMeansAllSteps ==
    /\ \A account \in Accounts :
          user_profiles[account] # None =>
              (user_profiles[account][1].onboarding_complete
               => /\ user_profiles[account][1].face_registered
                  /\ user_profiles[account][1].has_uploaded_history)
    /\ (last.op = "get_onboarding_status" /\ last.result = "ok")
       => (last.status[1].next_step = "complete"
           <=> last.status[1].onboarding_complete)


\* No record_transaction call is between its first and its last statement.
NoCallInProgress == \A th \in Threads : threads[th].pc \in {"idle", "returned"}

(***************************************************************************)
(* C28: in every reachable state in which no call is under way, the        *)
(* hour_histogram of a stored profile has exactly 24 entries, none         *)
(* negative, and their sum is the profile's transaction_count.             *)
(***************************************************************************)
C28_HistogramSumsToTransactionCount ==
    \A user_id \in Users :
        (NoCallInProgress /\ Stored(user_id) # None) =>
            \E profile \in {Stored(user_id)[1]} :
                /\ DOMAIN profile.hour_histogram = 0 .. HoursPerDay - 1
                /\ \A hour \in DOMAIN profile.hour_histogram :
                      profile.hour_histogram[hour] >= 0
                /\ HistogramTotal(profile) = profile.transaction_count


\* What get_profile(user_id) returns when nothing is cached: the profile
\* read from storage.
FreshlyStored(user_id) == GetProfile([u \in Users |-> None], disk, user_id).profile

\* The operations that are addressed to one user and may write.
AddressedOps ==
    {"create_profile", "set_learning_enabled", "reset_profile", "delete_profile"}
        \cup RecordingOps \cup LocationOps

(***************************************************************************)
(* C29: per-user isolation.  For two distinct user ids u and v, no         *)
(* operation addressed to u (create, record_transaction, trusted-location  *)
(* add and remove, reset, set_learning_enabled, delete) changes the        *)
(* profile get(v) returns, from the cache or freshly from storage.         *)
(***************************************************************************)
C29_PerUserIsolation ==
    [][\A u \in Users, v \in Users :
          (u # v /\ \E op \in AddressedOps : Called(op, u))
          => /\ Stored(v)' = Stored(v)
             /\ FreshlyStored(v)' = FreshlyStored(v)]_vars


(***************************************************************************)
(* C30: whenever analyze makes a real analysis (the profile consents and   *)
(* has counted at least 5 transactions), the amount baseline it compares   *)
(* against has been learned from at least one recorded transaction:        *)
(* amount_count >= 1, and the baseline is not the creation defaults.       *)
(***************************************************************************)
C30_AnalysisOnLearnedBaseline ==
    (/\ last.op = "analyze"
     /\ last.result = "ok"
     /\ last.analysis.status = None)
    => \A user_id \in {u \in Users : u = last.user_id} :
       \E profile \in {Stored(user_id)[1]} :
           /\ profile.learning_enabled
           /\ profile.transaction_count >= MinTransactions
           /\ profile.amount_count >= 1


====
